---- MODULE Spec2Model ----
(***************************************************************************)
(* State-machine model of the multi-session harvest orchestrator           *)
(* (smart_harvester.py: SmartHarvester and main) together with the part of *)
(* the single-session collector it talks to                                *)
(* (facebook_video_scraper.py: run_scraper_return_videos and               *)
(* scrape_videos_with_continuation).                                       *)
(*                                                                         *)
(* Conventions                                                             *)
(*  - a video id is a positive integer (the code uses opaque strings);     *)
(*  - all_videos is a Python dict, which keeps insertion order: it is a    *)
(*    sequence of VideoData records with pairwise distinct video_id;       *)
(*  - a date string is the sequence of its whitespace-separated words,     *)
(*    so "" is << >> and "3 years ago" is <<"3", "years", "ago">>;         *)
(*  - success_rate is the float (proper / found) * 100; it is kept as the  *)
(*    exact fraction [num, den], compared by cross-multiplication;         *)
(*  - harvest_results.json is the variable harvest_file: absent, a         *)
(*    complete JSON document, or torn (opened for writing and truncated,   *)
(*    the dump not finished).                                              *)
(***************************************************************************)
EXTENDS Integers, Sequences, FiniteSets, TLC

VARIABLES
    pc,                 \* position of the process in main / run_smart_harvest
    runs,               \* number of processes started so far
    attempts,           \* number of session attempts made so far, all runs
    faults,             \* number of failures and kills so far, all runs
    harvest_file,       \* harvest_results.json on disk
    all_videos,         \* self.all_videos
    sessions,           \* self.sessions
    harvest_stats,      \* self.harvest_stats
    num_sessions,       \* argument of run_smart_harvest
    target_videos,      \* argument of run_smart_harvest
    session_num,        \* loop variable of run_smart_harvest
    successful_sessions,\* local of run_smart_harvest
    session_config,     \* local of run_smart_harvest
    videos,             \* local of run_harvest_session: the collector's result
    collector,          \* how the last collector invocation of this run ended
    guard_continue,     \* FALSE when duplicate_checker ended the last collection
    calls,              \* collector invocations of this run: calls[i + 1] for index i
    sleep_secs,         \* argument of the pending time.sleep
    load_ok,            \* FALSE when _load_harvest_history logged a failure
    save_ok,            \* FALSE when the last _save_harvest_results logged a failure
    exit_code           \* return value of main

vars == <<pc, runs, attempts, faults, harvest_file, all_videos, sessions, harvest_stats,
          num_sessions, target_videos, session_num, successful_sessions,
          session_config, videos, collector, guard_continue, calls, sleep_secs,
          load_ok, save_ok, exit_code>>

-----------------------------------------------------------------------------
(* Bounds of the model *)

\* number of processes (runs of main) a behaviour may start
MaxRuns == 2

\* number of session attempts a behaviour may make, over all its runs
MaxAttempts == 3

\* number of failures (of the scraper, of a save) and kills (a crash, an
\* interrupt) a behaviour may hold, over all its runs
MaxFaults == 2

\* the --sessions argument given to main
NumSessions == 3

\* the --target argument given to main
TargetVideos == 36

-----------------------------------------------------------------------------
(* Program constants *)

early_check_count == 20

\* duplicate_threshold = 0.8, as the fraction DuplicateThresholdNum / 10
DuplicateThresholdNum == 8

DuplicateThresholdDen == 10

session_gap_min == 30

session_gap_max == 120

\* the period of the duplicate check inside the collector's loop
CheckEvery == 20

-----------------------------------------------------------------------------
(* Small helpers *)

Range(s) == {s[i] : i \in 1..Len(s)}

Min(a, b) == IF a < b THEN a ELSE b

Max(a, b) == IF a > b THEN a ELSE b

\* the keys of the dict all_videos
Keys(d) == {d[i].video_id : i \in 1..Len(d)}

\* d[k] for a key k of the dict d
Lookup(d, k) == d[CHOOSE i \in 1..Len(d) : d[i].video_id = k]

-----------------------------------------------------------------------------
(* Optional values: None is << >>, a value x that is present is <<x>> *)

None == << >>

Some(x) == <<x>>

-----------------------------------------------------------------------------
(* The data model *)

\* a title the extraction layer could not find is 'DRAGAMAMA_Video_<id>'
FallbackTitle == "DRAGAMAMA_Video_"

ProperTitle == "Draga mama"

\* title.startswith('DRAGAMAMA_Video_')
IsFallbackTitle(title) == title = FallbackTitle

\* VideoData, with the fields the orchestrator reads
VideoData(video_id, title, date) ==
    [video_id |-> video_id, title |-> title, date |-> date]

\* ContinuationPoint (reasoning, a log text, is left out)
ContinuationPoint(strategy, scroll_offset, target_date_range, anchor_video_id, expected_scroll_depth, date_filter_active, scroll_strategy) ==
    [strategy |-> strategy,
     scroll_offset |-> scroll_offset,
     target_date_range |-> target_date_range,
     anchor_video_id |-> anchor_video_id,
     expected_scroll_depth |-> expected_scroll_depth,
     date_filter_active |-> date_filter_active,
     scroll_strategy |-> scroll_strategy]

\* HarvestSession (the wall-clock fields session_id, timestamp and
\* completion_time are left out)
HarvestSession(videos_found, success_rate, target_filter, total_score, continuation_point) ==
    [videos_found |-> videos_found,
     success_rate |-> success_rate,
     target_filter |-> target_filter,
     total_score |-> total_score,
     continuation_point |-> continuation_point]

\* HarvestStats() as constructed (the wall-clock fields are left out)
HarvestStats ==
    [total_sessions |-> 0, total_videos |-> 0, unique_videos |-> 0,
     total_score |-> 0, best_session_score |-> 0]

\* the float (proper / found) * 100 as an exact fraction
Rate(proper, found) == [num |-> proper * 100, den |-> found]

ZeroRate == [num |-> 0, den |-> 1]

\* a < b for two fractions with positive denominators
RateLess(a, b) == a.num * b.den < b.num * a.den

\* a < b - points
RateDropsBy(a, b, points) ==
    a.num * b.den < b.num * a.den - points * a.den * b.den

-----------------------------------------------------------------------------
(* The page the collector reads *)

\* the date shown next to video i of the page
FeedDate(i) ==
    IF i <= 10 THEN <<"2", "days", "ago">>
    ELSE IF i <= 25 THEN <<"5", "months", "ago">>
    ELSE <<"3", "years", "ago">>

\* video i of the page as the extraction layer returns it: with its title
\* and date ("good") or with the fallback title and no date ("poor")
Extracted(i, quality) ==
    IF quality = "good"
    THEN VideoData(i, ProperTitle, FeedDate(i))
    ELSE VideoData(i, FallbackTitle, << >>)

\* the results a collector invocation is given to work on: avail videos of
\* the page from video start on, extracted with one quality, and the score
\* the scoring system reports for the session
CollectorDraws ==
    { [start |-> 1,  avail |-> 20, quality |-> "good", score |-> 300],
      [start |-> 16, avail |-> 20, quality |-> "good", score |-> 350],
      [start |-> 1,  avail |-> 40, quality |-> "poor", score |-> 400],
      [start |-> 1,  avail |-> 0,  quality |-> "good", score |-> 200] }

\* videos_by_id of a draw, in page order
Page(draw) ==
    [k \in 1..draw.avail |-> Extracted(draw.start + k - 1, draw.quality)]

-----------------------------------------------------------------------------
(* DuplicateGuard *)

\* the guard with the comparison duplicates / len > 0.8 in place of >=
ShouldContinueStrictly(scraped_videos) ==
    IF Len(scraped_videos) < early_check_count
    THEN TRUE
    ELSE LET duplicates ==
                 Cardinality({i \in 1..Len(scraped_videos) :
                                 scraped_videos[i].video_id \in Keys(all_videos)})
         IN  ~(duplicates * DuplicateThresholdDen
                   > DuplicateThresholdNum * Len(scraped_videos))

\* _should_continue_session(scraped_videos), reading self.all_videos
_should_continue_session(scraped_videos) ==
    IF Len(scraped_videos) < early_check_count
    THEN TRUE
    ELSE LET duplicates ==
                 Cardinality({i \in 1..Len(scraped_videos) :
                                 scraped_videos[i].video_id \in Keys(all_videos)})
         IN  \* duplicates / len >= 0.8 is FALSE to continue
             ~(duplicates * DuplicateThresholdDen
                   >= DuplicateThresholdNum * Len(scraped_videos))

-----------------------------------------------------------------------------
(* The collector *)

\* date_filter in video_date, on word sequences
RECURSIVE ContainsAt(_, _, _)
ContainsAt(hay, needle, i) ==
    IF i + Len(needle) - 1 > Len(hay) THEN FALSE
    ELSE IF SubSeq(hay, i, i + Len(needle) - 1) = needle THEN TRUE
    ELSE ContainsAt(hay, needle, i + 1)

Contains(hay, needle) == ContainsAt(hay, needle, 1)

\* the loop without its break: the duplicate checker is asked and its answer
\* is logged, and the loop goes on to the end of the page
RECURSIVE ScrapeLoopPastGuard(_, _, _, _)
ScrapeLoopPastGuard(page, date_filter, k, videos_data) ==
    IF k > Len(page)
    THEN [videos_data |-> videos_data,
          stopped |-> \E n \in 20..Len(videos_data) :
                          /\ n % CheckEvery = 0
                          /\ ~_should_continue_session(SubSeq(videos_data, 1, n))]
    ELSE IF /\ date_filter # None
            /\ page[k].date # << >>
            /\ ~Contains(page[k].date, date_filter[1])
         THEN ScrapeLoopPastGuard(page, date_filter, k + 1, videos_data)
         ELSE ScrapeLoopPastGuard(page, date_filter, k + 1,
                                  Append(videos_data, page[k]))

\* the loop asking the duplicate checker after every item from the 20th on
RECURSIVE ScrapeLoopCheckingEach(_, _, _, _)
ScrapeLoopCheckingEach(page, date_filter, k, videos_data) ==
    IF k > Len(page) THEN [videos_data |-> videos_data, stopped |-> FALSE]
    ELSE IF /\ date_filter # None
            /\ page[k].date # << >>
            /\ ~Contains(page[k].date, date_filter[1])
         THEN ScrapeLoopCheckingEach(page, date_filter, k + 1, videos_data)
         ELSE LET added == Append(videos_data, page[k])
              IN  IF /\ Len(added) >= 20
                     /\ ~_should_continue_session(added)
                  THEN [videos_data |-> added, stopped |-> TRUE]
                  ELSE ScrapeLoopCheckingEach(page, date_filter, k + 1, added)

\* the loop of scrape_videos_with_continuation over videos_by_id, from item k
\* on, with videos_data collected so far: videos_data at the end of the loop
\* and whether the duplicate checker ended it
RECURSIVE ScrapeLoop(_, _, _, _)
ScrapeLoop(page, date_filter, k, videos_data) ==
    IF k > Len(page) THEN [videos_data |-> videos_data, stopped |-> FALSE]
    ELSE IF /\ date_filter # None
            /\ page[k].date # << >>
            /\ ~Contains(page[k].date, date_filter[1])
         THEN ScrapeLoop(page, date_filter, k + 1, videos_data)
         ELSE LET added == Append(videos_data, page[k])
              IN  IF /\ Len(added) >= 20
                     /\ Len(added) % CheckEvery = 0
                     /\ ~_should_continue_session(added)
                  THEN [videos_data |-> added, stopped |-> TRUE]
                  ELSE ScrapeLoop(page, date_filter, k + 1, added)

\* scrape_videos_with_continuation(scroll_count, date_filter, duplicate_checker)
\* on the page the browser shows
scrape_videos_with_continuation(page, date_filter) ==
    ScrapeLoop(page, date_filter, 1, << >>).videos_data

\* whether that call ended on the duplicate checker returning False
StoppedByGuard(page, date_filter) ==
    ScrapeLoop(page, date_filter, 1, << >>).stopped

-----------------------------------------------------------------------------
(* Age priority *)

\* the words that are all digits, at the position of their value
Numerals == <<"1", "2", "3", "4", "5", "6", "7", "8", "9", "10", "11", "12">>

IsNumeral(word) == \E n \in 1..Len(Numerals) : Numerals[n] = word

\* int(match.group(1))
NumeralValue(word) == CHOOSE n \in 1..Len(Numerals) : Numerals[n] = word

\* the unit a word starts with: (year|month|day|hour), or "" for none
UnitOf(word) ==
    CASE word \in {"year", "years"} -> "year"
      [] word \in {"month", "months"} -> "month"
      [] word \in {"day", "days"} -> "day"
      [] word \in {"hour", "hours"} -> "hour"
      [] OTHER -> ""

\* the positions where (\d+)\s+(year|month|day|hour) matches
Matches(date_str) ==
    {i \in 1..(Len(date_str) - 1) :
        IsNumeral(date_str[i]) /\ UnitOf(date_str[i + 1]) # ""}

\* the conversion that counts an hour as a day
ParsePriorityHoursAsDays(date_str) ==
    IF date_str = << >> THEN 9999
    ELSE IF Matches(date_str) = {} THEN 5000
    ELSE LET i == CHOOSE m \in Matches(date_str) :
                      \A o \in Matches(date_str) : m <= o
             number == NumeralValue(date_str[i])
             unit == UnitOf(date_str[i + 1])
         IN  CASE unit = "year" -> number * 365
               [] unit = "month" -> number * 30
               [] unit \in {"day", "hour"} -> number

\* _parse_date_to_priority(date_str)
_parse_date_to_priority(date_str) ==
    IF date_str = << >> THEN 9999
    ELSE IF Matches(date_str) = {} THEN 5000
    ELSE LET i == CHOOSE m \in Matches(date_str) :
                      \A o \in Matches(date_str) : m <= o
             number == NumeralValue(date_str[i])
             unit == UnitOf(date_str[i + 1])
         IN  CASE unit = "year" -> number * 365
               [] unit = "month" -> number * 30
               [] unit = "day" -> number
               [] unit = "hour" -> 0

-----------------------------------------------------------------------------
(* sorted(..., key=...) and list.sort(key=...): stable, ascending *)

\* a sorted list of <<value, key>> pairs with one more pair
InsertPair(sorted, x) ==
    LET n == Cardinality({i \in 1..Len(sorted) : sorted[i][2] <= x[2]})
    IN  SubSeq(sorted, 1, n) \o <<x>> \o SubSeq(sorted, n + 1, Len(sorted))

RECURSIVE SortPairs(_)
SortPairs(pairs) ==
    IF pairs = << >> THEN << >>
    ELSE InsertPair(SortPairs(SubSeq(pairs, 1, Len(pairs) - 1)), pairs[Len(pairs)])

\* the elements of a list that satisfy a test, in order
RECURSIVE Dated(_)
Dated(vs) ==
    IF vs = << >> THEN << >>
    ELSE IF vs[Len(vs)].date # << >>
         THEN Append(Dated(SubSeq(vs, 1, Len(vs) - 1)), vs[Len(vs)])
         ELSE Dated(SubSeq(vs, 1, Len(vs) - 1))

\* the keys of date_groups, in the order the dict got them
RECURSIVE DateKeys(_)
DateKeys(vs) ==
    IF vs = << >> THEN << >>
    ELSE LET before == DateKeys(SubSeq(vs, 1, Len(vs) - 1))
             date_key == vs[Len(vs)].date
         IN  IF date_key \in Range(before) THEN before
             ELSE Append(before, date_key)

-----------------------------------------------------------------------------
(* ContinuationPlanner *)

\* _analyze_collection_gaps(): the keys of the dict it returns and, when it
\* is there, most_recent_dates
_analyze_collection_gaps ==
    IF all_videos = << >>
    THEN [has_dates |-> FALSE, most_recent_dates |-> << >>]
    ELSE LET keys == DateKeys(Dated(all_videos))
             pairs == [i \in 1..Len(keys) |->
                          <<keys[i], _parse_date_to_priority(keys[i])>>]
             sorted_dates == [i \in 1..Len(keys) |-> SortPairs(pairs)[i][1]]
         IN  [has_dates |-> TRUE,
              most_recent_dates |-> SubSeq(sorted_dates, 1, Min(3, Len(sorted_dates)))]

\* the scroll offsets random.randint(10, 15) is sampled at
ScrollOffsetDraws == {10, 15}

\* _calculate_advanced_continuation_point(session_num) raises KeyError:
\* analysis["most_recent_dates"] on the dict of an empty collection
PlanRaises(snum) ==
    /\ snum >= 2
    /\ Dated(all_videos) = << >>
    /\ ~_analyze_collection_gaps.has_dates

\* dated_videos of _calculate_advanced_continuation_point after its sort:
\* the items with a date, by ascending priority
dated_videos ==
    LET dated == Dated(all_videos)
    IN  SortPairs([i \in 1..Len(dated) |->
                      <<dated[i], _parse_date_to_priority(dated[i].date)>>])

\* a first session that starts 10 scrolls deep
FreshStartDeep ==
    ContinuationPoint("fresh_start", 10, None, None, 10, FALSE, "standard")

\* the ContinuationPoint returned for session_num == 0
FreshStartPoint ==
    ContinuationPoint("fresh_start", 0, None, None, 0, FALSE, "standard")

\* a second session that starts twice as deep as drawn
ScrollOffsetDoubled(scroll_offset) ==
    ContinuationPoint("scroll_offset", 2 * scroll_offset, None, None,
                      (2 * scroll_offset) + 20, FALSE, "adaptive")

\* the ContinuationPoint returned for session_num == 1
ScrollOffsetPoint(scroll_offset) ==
    ContinuationPoint("scroll_offset", scroll_offset, None, None,
                      scroll_offset + 20, FALSE, "adaptive")

\* an anchor on the oldest dated item in place of the median one
VideoAnchorOldest(snum) ==
    LET anchor_video == dated_videos[Len(dated_videos)][1]
        scroll_depth == Min(snum * 12, 50)
    IN  ContinuationPoint("video_id_anchor", scroll_depth,
                          Some(anchor_video.date), Some(anchor_video.video_id),
                          scroll_depth + 15, TRUE, "deep")

\* a video_id_anchor point that names the date and not the item
VideoAnchorUnanchored(snum) ==
    LET target_index == Min(Len(dated_videos) \div 2, Len(dated_videos) - 1)
        anchor_video == dated_videos[target_index + 1][1]
        scroll_depth == Min(snum * 12, 50)
    IN  ContinuationPoint("video_id_anchor", scroll_depth,
                          Some(anchor_video.date), None,
                          scroll_depth + 15, TRUE, "deep")

\* the ContinuationPoint returned for session_num >= 2 when dated_videos is
\* not empty
VideoAnchorPoint(snum) ==
    LET target_index == Min(Len(dated_videos) \div 2, Len(dated_videos) - 1)
        \* a Python list index counts from 0
        anchor_video == dated_videos[target_index + 1][1]
        scroll_depth == Min(snum * 12, 50)
    IN  ContinuationPoint("video_id_anchor", scroll_depth,
                          Some(anchor_video.date), Some(anchor_video.video_id),
                          scroll_depth + 15, TRUE, "deep")

\* the ContinuationPoint of the fallback on analysis["most_recent_dates"]
DateAnchorPoint(snum) ==
    LET most_recent_dates == _analyze_collection_gaps.most_recent_dates
        target_date == most_recent_dates[Len(most_recent_dates)]
    IN  ContinuationPoint("date_anchor", snum * 8, Some(target_date), None,
                          (snum * 8) + 20, TRUE, "adaptive")

\* a deep_scroll point with the depth margin of the anchored strategies
DeepScrollShallow(snum) ==
    ContinuationPoint("deep_scroll", snum * 10, None, None,
                      (snum * 10) + 15, FALSE, "deep")

\* the ContinuationPoint of the last return statement
DeepScrollPoint(snum) ==
    ContinuationPoint("deep_scroll", snum * 10, None, None,
                      (snum * 10) + 25, FALSE, "deep")

\* _calculate_advanced_continuation_point(session_num), with the value
\* random.randint(10, 15) returns, where it does not raise
_calculate_advanced_continuation_point(snum, scroll_offset) ==
    IF snum = 0 THEN FreshStartPoint
    ELSE IF snum = 1 THEN ScrollOffsetPoint(scroll_offset)
    ELSE IF snum >= 2 /\ dated_videos # << >> THEN VideoAnchorPoint(snum)
    ELSE IF _analyze_collection_gaps.most_recent_dates # << >>
         THEN DateAnchorPoint(snum)
         ELSE DeepScrollPoint(snum)

\* a float multiplier as an exact fraction
Mult(num, den) == [num |-> num, den |-> den]

\* _generate_session_config(session_num, total_sessions), where the planner
\* does not raise (scroll_count only sets how far the browser scrolls)
_generate_session_config(snum, scroll_offset) ==
    LET continuation ==
            _calculate_advanced_continuation_point(snum, scroll_offset)
        gap_multiplier ==
            IF snum >= 2 THEN Mult(5, 2)
            ELSE IF /\ Len(sessions) >= 1
                    /\ RateLess(sessions[Len(sessions)].success_rate, Rate(50, 100))
                 THEN Mult(2, 1)
                 ELSE Mult(1, 1)
    IN  [target_filter |-> snum + 1,
         gap_multiplier |-> gap_multiplier,
         continuation |-> continuation]

-----------------------------------------------------------------------------
(* GapScheduler *)

\* the values random.randint(session_gap_min, session_gap_max) is sampled at
BaseGapDraws == {session_gap_min, session_gap_max}

\* the values random.randint(60, 180) is sampled at
RecoveryDraws == {60, 180}

\* final_gap of _calculate_session_gap with the division gap / hint in place
\* of the product
ScaledGapDividing(base_gap, gap_multiplier) ==
    LET n == Len(sessions)
        degraded ==
            /\ n >= 2
            /\ RateDropsBy(sessions[n].success_rate, sessions[n - 1].success_rate, 10)
        m1 == IF degraded
              THEN Mult(gap_multiplier.den * 3, gap_multiplier.num)
              ELSE Mult(gap_multiplier.den, gap_multiplier.num)
        m2 == IF n >= 2 THEN Mult(m1.num * 5, m1.den * 2) ELSE m1
    IN  (base_gap * m2.num) \div m2.den

\* final_gap with the limits applied before the multiplier of the history
ScaledGapClampedEarly(base_gap, gap_multiplier) ==
    LET n == Len(sessions)
        degraded ==
            /\ n >= 2
            /\ RateDropsBy(sessions[n].success_rate, sessions[n - 1].success_rate, 10)
        m1 == IF degraded
              THEN Mult(gap_multiplier.num * 3, gap_multiplier.den)
              ELSE gap_multiplier
        early == Min(Max((base_gap * m1.num) \div m1.den, 30), 300)
    IN  IF n >= 2 THEN (early * 5) \div 2 ELSE early

\* final_gap of _calculate_session_gap(gap_multiplier), with the value
\* base_gap that random.randint returns
ScaledGap(base_gap, gap_multiplier) ==
    LET n == Len(sessions)
        degraded ==
            /\ n >= 2
            /\ RateDropsBy(sessions[n].success_rate, sessions[n - 1].success_rate, 10)
        m1 == IF degraded
              THEN Mult(gap_multiplier.num * 3, gap_multiplier.den)
              ELSE gap_multiplier
        m2 == IF n >= 2 THEN Mult(m1.num * 5, m1.den * 2) ELSE m1
    IN  \* int() truncates; the product is not negative
        (base_gap * m2.num) \div m2.den

\* _calculate_session_gap without its last line
GapUnclamped(base_gap, gap_multiplier) == ScaledGap(base_gap, gap_multiplier)

\* _calculate_session_gap(gap_multiplier): min(max(final_gap, 30), 300)
_calculate_session_gap(base_gap, gap_multiplier) ==
    Min(Max(ScaledGap(base_gap, gap_multiplier), 30), 300)

-----------------------------------------------------------------------------
(* Persistence: harvest_results.json *)

EmptyData == [harvest_metadata |-> HarvestStats, sessions |-> << >>, all_videos |-> << >>]

FileAbsent == [kind |-> "absent", data |-> EmptyData]

\* the file after open(harvest_file, 'w') and before json.dump has finished
FileTorn == [kind |-> "torn", data |-> EmptyData]

FileJson(data) == [kind |-> "json", data |-> data]

\* asdict(video): the dict json.dump writes for one VideoData
VideoDict(video) ==
    [video_id |-> video.video_id, title |-> video.title, date |-> video.date]

\* session_dict of _save_harvest_results: the key "continuation_point" is
\* set only for a session that has one, to asdict of it
SessionDict(session) ==
    LET session_dict == [videos_found |-> session.videos_found,
                         success_rate |-> session.success_rate,
                         target_filter |-> session.target_filter,
                         total_score |-> session.total_score]
    IN  IF session.continuation_point # None
        THEN session_dict @@
                 [continuation_point |-> session.continuation_point[1]]
        ELSE session_dict

\* the document _save_harvest_results builds from a collection, a history
\* and the statistics: sessions_data is a list, videos_data an object whose
\* entries keep the order of insertion
DocumentOf(vs, ss, stats) ==
    [harvest_metadata |->
         [total_sessions |-> Len(ss),
          total_videos |-> stats.total_videos,
          unique_videos |-> Len(vs),
          total_score |-> stats.total_score,
          best_session_score |-> stats.best_session_score],
     sessions |-> [i \in 1..Len(ss) |-> SessionDict(ss[i])],
     all_videos |-> [i \in 1..Len(vs) |->
                        [key |-> vs[i].video_id, value |-> VideoDict(vs[i])]]]

\* harvest_data of _save_harvest_results
harvest_data == DocumentOf(all_videos, sessions, harvest_stats)

\* dict.get(key, default)
Get(dict, key, default) ==
    IF key \in DOMAIN dict THEN dict[key] ELSE default

\* the loader that does not read the date of an item
LoadedVideoUndated(video_data) ==
    VideoData(video_data["video_id"], video_data["title"], << >>)

\* the VideoData _load_harvest_history builds from one entry of all_videos
LoadedVideo(video_data) ==
    VideoData(video_data["video_id"], video_data["title"],
              Get(video_data, "date", << >>))

\* the HarvestSession _load_harvest_history builds from one entry of
\* sessions: a continuation point only for a non-empty continuation_data
LoadedSession(session_data) ==
    LET has == /\ "continuation_point" \in DOMAIN session_data
               /\ DOMAIN session_data["continuation_point"] # {}
        continuation_data == session_data["continuation_point"]
        continuation_point ==
            IF has
            THEN Some(ContinuationPoint(
                     Get(continuation_data, "strategy", "fresh_start"),
                     Get(continuation_data, "scroll_offset", 0),
                     Get(continuation_data, "target_date_range", None),
                     Get(continuation_data, "anchor_video_id", None),
                     Get(continuation_data, "expected_scroll_depth", 0),
                     Get(continuation_data, "date_filter_active", FALSE),
                     Get(continuation_data, "scroll_strategy", "adaptive")))
            ELSE None
    IN  HarvestSession(session_data["videos_found"],
                       session_data["success_rate"],
                       session_data["target_filter"],
                       session_data["total_score"],
                       continuation_point)

\* what _load_harvest_history leaves in a fresh SmartHarvester: json.load
\* raises on a torn file before anything is assigned
Loaded(file) ==
    IF file.kind = "json"
    THEN LET data == file.data
             metadata == data.harvest_metadata
         IN  [stats |->
                  [total_sessions |-> Get(metadata, "total_sessions", 0),
                   total_videos |-> Get(metadata, "total_videos", 0),
                   unique_videos |-> Get(metadata, "unique_videos", 0),
                   total_score |-> Get(metadata, "total_score", 0),
                   best_session_score |->
                       Get(metadata, "best_session_score", 0)],
              all_videos |-> [i \in 1..Len(data.all_videos) |->
                                 LoadedVideo(data.all_videos[i].value)],
              sessions |-> [i \in 1..Len(data.sessions) |->
                               LoadedSession(data.sessions[i])],
              ok |-> TRUE]
    ELSE [stats |-> HarvestStats, all_videos |-> << >>, sessions |-> << >>,
          ok |-> file.kind = "absent"]

-----------------------------------------------------------------------------
(* Corpus merge *)

\* a merge without the test 'video.video_id not in self.all_videos'
MergeUnchecked(corpus, vs) == corpus \o vs

\* a merge that keeps the items of the session only
MergeForgetting(corpus, vs) == vs

\* a merge that stores the item of the session over the one it has
RECURSIVE MergeLastWins(_, _)
MergeLastWins(corpus, vs) ==
    IF vs = << >> THEN corpus
    ELSE LET video == Head(vs)
         IN  IF video.video_id \notin Keys(corpus)
             THEN MergeLastWins(Append(corpus, video), Tail(vs))
             ELSE MergeLastWins(
                      [i \in 1..Len(corpus) |->
                          IF corpus[i].video_id = video.video_id
                          THEN video ELSE corpus[i]],
                      Tail(vs))

\* the loop 'for video in videos' of run_harvest_session on the dict corpus
RECURSIVE Merge(_, _)
Merge(corpus, vs) ==
    IF vs = << >> THEN corpus
    ELSE LET video == Head(vs)
         IN  IF video.video_id \notin Keys(corpus)
             THEN Merge(Append(corpus, video), Tail(vs))
             ELSE Merge(corpus, Tail(vs))

\* success_rate of run_harvest_session
SuccessRate(vs) ==
    IF vs # << >>
    THEN Rate(Cardinality({i \in 1..Len(vs) : ~IsFallbackTitle(vs[i].title)}), Len(vs))
    ELSE ZeroRate

-----------------------------------------------------------------------------
(* The process: main, SmartHarvester(), run_smart_harvest *)

Stopped == {"off", "done", "failed", "interrupted", "crashed"}

NoConfig == [target_filter |-> 0, gap_multiplier |-> Mult(1, 1),
             continuation |-> ContinuationPoint("fresh_start", 0, None, None, 0, FALSE, "standard")]

\* the variables of the process before it starts and after it has gone
NoProcess(v_all_videos, v_sessions, v_harvest_stats, v_num_sessions, v_target_videos, v_session_num, v_successful_sessions, v_session_config, v_videos, v_collector, v_guard_continue, v_calls, v_sleep_secs, v_load_ok, v_save_ok) ==
    /\ v_all_videos = << >>
    /\ v_sessions = << >>
    /\ v_harvest_stats = HarvestStats
    /\ v_num_sessions = 0
    /\ v_target_videos = 0
    /\ v_session_num = 0
    /\ v_successful_sessions = 0
    /\ v_session_config = NoConfig
    /\ v_videos = << >>
    /\ v_collector = "idle"
    /\ v_guard_continue = TRUE
    /\ v_calls = << >>
    /\ v_sleep_secs = 0
    /\ v_load_ok = TRUE
    /\ v_save_ok = TRUE

Init ==
    /\ pc = "off"
    /\ runs = 0
    /\ attempts = 0
    /\ faults = 0
    /\ harvest_file = FileAbsent
    /\ exit_code = -1
    /\ NoProcess(all_videos, sessions, harvest_stats, num_sessions, target_videos,
                 session_num, successful_sessions, session_config, videos,
                 collector, guard_continue, calls, sleep_secs, load_ok, save_ok)

\* one more failure or kill happens
Fault ==
    /\ faults < MaxFaults
    /\ faults' = faults + 1

\* the process ends at position p with exit code c: its memory is gone
Ends(p, c) ==
    /\ pc' = p
    /\ exit_code' = c
    /\ NoProcess(all_videos', sessions', harvest_stats', num_sessions',
                 target_videos', session_num', successful_sessions',
                 session_config', videos', collector', guard_continue', calls',
                 sleep_secs', load_ok', save_ok')
    /\ UNCHANGED <<runs, attempts, harvest_file>>

\* main: SmartHarvester() with _load_harvest_history, then the entry of
\* run_smart_harvest
Main ==
    /\ pc \in Stopped
    /\ runs < MaxRuns
    /\ runs' = runs + 1
    /\ target_videos' = TargetVideos
    /\ num_sessions' = NumSessions
    /\ all_videos' = Loaded(harvest_file).all_videos
    /\ sessions' = Loaded(harvest_file).sessions
    /\ harvest_stats' = Loaded(harvest_file).stats
    /\ load_ok' = Loaded(harvest_file).ok
    /\ save_ok' = TRUE
    /\ session_num' = 0
    /\ successful_sessions' = 0
    /\ session_config' = NoConfig
    /\ videos' = << >>
    /\ collector' = "idle"
    /\ guard_continue' = TRUE
    /\ calls' = [i \in 1..NumSessions |-> 0]
    /\ sleep_secs' = 0
    /\ exit_code' = -1
    /\ pc' = "loop"
    /\ UNCHANGED <<attempts, faults, harvest_file>>

\* the for loop is over: final statistics, then the final save
Exhausted ==
    /\ pc = "loop"
    /\ session_num >= num_sessions
    /\ pc' = "final_save"
    /\ UNCHANGED <<runs, attempts, faults, harvest_file, all_videos, sessions, harvest_stats,
                   num_sessions, target_videos, session_num, successful_sessions,
                   session_config, videos, collector, guard_continue, calls, sleep_secs, load_ok,
                   save_ok, exit_code>>

\* if len(self.all_videos) >= target_videos: break
TargetReached ==
    /\ pc = "loop"
    /\ session_num < num_sessions
    /\ Len(all_videos) >= target_videos
    /\ pc' = "final_save"
    /\ UNCHANGED <<runs, attempts, faults, harvest_file, all_videos, sessions, harvest_stats,
                   num_sessions, target_videos, session_num, successful_sessions,
                   session_config, videos, collector, guard_continue, calls, sleep_secs, load_ok,
                   save_ok, exit_code>>

\* the loop body entered without the test of the collection size
IteratesRegardless ==
    /\ pc = "loop"
    /\ session_num < num_sessions

\* the loop body is entered
Iterates ==
    /\ pc = "loop"
    /\ session_num < num_sessions
    /\ Len(all_videos) < target_videos

\* _generate_session_config raises: the exception leaves run_smart_harvest
\* and main returns 1
ConfigRaises ==
    /\ Iterates
    /\ PlanRaises(session_num)
    /\ Ends("failed", 1)
    /\ UNCHANGED faults

\* the values of random.randint(10, 15) that session_num can see
OffsetDrawsAt(snum) == IF snum = 1 THEN ScrollOffsetDraws ELSE {0}

\* the session is configured, run_harvest_session builds the scraper and
\* calls run_scraper_return_videos
StartSession ==
    /\ Iterates
    /\ ~PlanRaises(session_num)
    /\ attempts < MaxAttempts
    /\ attempts' = attempts + 1
    /\ \E scroll_offset \in OffsetDrawsAt(session_num) :
           session_config' = _generate_session_config(session_num, scroll_offset)
    /\ calls' = [calls EXCEPT ![session_num + 1] = @ + 1]
    /\ collector' = "running"
    /\ pc' = "collecting"
    /\ UNCHANGED <<runs, faults, harvest_file, all_videos, sessions, harvest_stats,
                   num_sessions, target_videos, session_num, successful_sessions,
                   videos, guard_continue, sleep_secs, load_ok, save_ok, exit_code>>

\* the session is configured and FacebookVideoScraper() raises in
\* run_harvest_session, which returns None: the recovery sleep follows
ScraperInitFails ==
    /\ Iterates
    /\ Fault
    /\ ~PlanRaises(session_num)
    /\ attempts < MaxAttempts
    /\ attempts' = attempts + 1
    /\ \E scroll_offset \in OffsetDrawsAt(session_num) :
           session_config' = _generate_session_config(session_num, scroll_offset)
    /\ collector' = "not_invoked"
    /\ \E secs \in RecoveryDraws : sleep_secs' = secs
    /\ pc' = "sleep"
    /\ UNCHANGED <<runs, harvest_file, all_videos, sessions, harvest_stats,
                   num_sessions, target_videos, session_num, successful_sessions,
                   videos, guard_continue, calls, load_ok, save_ok, exit_code>>

\* the record of a session without the continuation point it started from
SessionRecordedUnplanned(vs, score) ==
    LET session_score == IF vs # << >> THEN score ELSE 0
        session == HarvestSession(Len(vs), SuccessRate(vs),
                                  session_config.target_filter, session_score,
                                  None)
    IN  /\ videos' = vs
        /\ all_videos' = Merge(all_videos, vs)
        /\ sessions' = Append(sessions, session)
        /\ successful_sessions' = successful_sessions + 1
        /\ harvest_stats' =
               [total_sessions |-> harvest_stats.total_sessions + 1,
                total_videos |-> harvest_stats.total_videos + session.videos_found,
                unique_videos |-> Len(Merge(all_videos, vs)),
                total_score |-> harvest_stats.total_score + session.total_score,
                best_session_score |->
                    Max(harvest_stats.best_session_score, session.total_score)]
        /\ pc' = "save"

\* run_harvest_session from the return of the collector with the list vs on,
\* and the statistics run_smart_harvest keeps of the session it returns
SessionRecorded(vs, score) ==
    LET session_score == IF vs # << >> THEN score ELSE 0
        session == HarvestSession(Len(vs), SuccessRate(vs),
                                  session_config.target_filter, session_score,
                                  Some(session_config.continuation))
    IN  /\ videos' = vs
        /\ all_videos' = Merge(all_videos, vs)
        /\ sessions' = Append(sessions, session)
        /\ successful_sessions' = successful_sessions + 1
        /\ harvest_stats' =
               [total_sessions |-> harvest_stats.total_sessions + 1,
                total_videos |-> harvest_stats.total_videos + session.videos_found,
                unique_videos |-> Len(Merge(all_videos, vs)),
                total_score |-> harvest_stats.total_score + session.total_score,
                best_session_score |->
                    Max(harvest_stats.best_session_score, session.total_score)]
        /\ pc' = "save"

\* run_scraper_return_videos returns the videos it scraped
CollectorReturns ==
    /\ pc = "collecting"
    /\ \E draw \in CollectorDraws :
           LET date_filter == session_config.continuation.target_date_range
           IN  /\ SessionRecorded(
                      scrape_videos_with_continuation(Page(draw), date_filter),
                      draw.score)
               /\ guard_continue' = ~StoppedByGuard(Page(draw), date_filter)
    /\ collector' = "returned"
    /\ UNCHANGED <<runs, attempts, faults, harvest_file, num_sessions, target_videos,
                   session_num, session_config, calls, sleep_secs, load_ok,
                   save_ok, exit_code>>

\* a collector that has written what it scraped into the collection before
\* it fails and returns []
CollectorErrorsMerging ==
    /\ pc = "collecting"
    /\ Fault
    /\ \E draw \in CollectorDraws :
           LET scraped == scrape_videos_with_continuation(
                              Page(draw), session_config.continuation.target_date_range)
               session == HarvestSession(0, ZeroRate, session_config.target_filter, 0,
                                         Some(session_config.continuation))
           IN  /\ videos' = << >>
               /\ all_videos' = Merge(all_videos, scraped)
               /\ sessions' = Append(sessions, session)
               /\ successful_sessions' = successful_sessions + 1
               /\ harvest_stats' =
                      [harvest_stats EXCEPT
                           !.total_sessions = @ + 1,
                           !.unique_videos = Len(Merge(all_videos, scraped))]
               /\ pc' = "save"
    /\ collector' = "error"
    /\ UNCHANGED <<runs, attempts, harvest_file, num_sessions, target_videos,
                   session_num, session_config, guard_continue, calls, sleep_secs,
                   load_ok, save_ok, exit_code>>

\* run_scraper_return_videos fails inside (driver, login, navigation,
\* scraping): its except clause returns []
CollectorErrors ==
    /\ pc = "collecting"
    /\ Fault
    /\ SessionRecorded(<< >>, 0)
    /\ collector' = "error"
    /\ UNCHANGED <<runs, attempts, harvest_file, num_sessions, target_videos,
                   session_num, session_config, guard_continue, calls, sleep_secs,
                   load_ok, save_ok, exit_code>>

\* run_harvest_session raising only after its merge loop has run
CollectorRaisesAfterMerge ==
    /\ pc = "collecting"
    /\ Fault
    /\ \E draw \in CollectorDraws :
           all_videos' =
               Merge(all_videos,
                     scrape_videos_with_continuation(
                         Page(draw), session_config.continuation.target_date_range))
    /\ collector' = "raised"
    /\ \E secs \in RecoveryDraws : sleep_secs' = secs
    /\ pc' = "sleep"
    /\ UNCHANGED <<runs, attempts, harvest_file, sessions, harvest_stats,
                   num_sessions, target_videos, session_num, successful_sessions,
                   session_config, videos, guard_continue, calls, load_ok, save_ok,
                   exit_code>>

\* run_scraper_return_videos raises (self.cleanup() in its finally clause):
\* run_harvest_session returns None and the recovery sleep follows
CollectorRaises ==
    /\ pc = "collecting"
    /\ Fault
    /\ collector' = "raised"
    /\ \E secs \in RecoveryDraws : sleep_secs' = secs
    /\ pc' = "sleep"
    /\ UNCHANGED <<runs, attempts, harvest_file, all_videos, sessions, harvest_stats,
                   num_sessions, target_videos, session_num, successful_sessions,
                   session_config, videos, guard_continue, calls, load_ok, save_ok,
                   exit_code>>

-----------------------------------------------------------------------------
(* _save_harvest_results, called after a session ("save") and at the end of
   run_smart_harvest ("final_save") *)

\* open(self.harvest_file, 'w') succeeds: the file is truncated
SaveOpens ==
    /\ pc \in {"save", "final_save"}
    /\ harvest_file' = FileTorn
    /\ pc' = IF pc = "save" THEN "dump" ELSE "final_dump"
    /\ UNCHANGED <<runs, attempts, faults, all_videos, sessions, harvest_stats,
                   num_sessions, target_videos, session_num, successful_sessions,
                   session_config, videos, collector, guard_continue, calls, sleep_secs, load_ok,
                   save_ok, exit_code>>

\* open raises: the except clause logs the error, the file is as it was
SaveOpenFails ==
    /\ pc \in {"save", "final_save"}
    /\ Fault
    /\ save_ok' = FALSE
    /\ pc' = IF pc = "save" THEN "saved" ELSE "report"
    /\ UNCHANGED <<runs, attempts, harvest_file, all_videos, sessions, harvest_stats,
                   num_sessions, target_videos, session_num, successful_sessions,
                   session_config, videos, collector, guard_continue, calls, sleep_secs, load_ok,
                   exit_code>>

\* json.dump writes the whole document and the file is closed
SaveDumps ==
    /\ pc \in {"dump", "final_dump"}
    /\ harvest_file' = FileJson(harvest_data)
    /\ save_ok' = TRUE
    /\ pc' = IF pc = "dump" THEN "saved" ELSE "report"
    /\ UNCHANGED <<runs, attempts, faults, all_videos, sessions, harvest_stats,
                   num_sessions, target_videos, session_num, successful_sessions,
                   session_config, videos, collector, guard_continue, calls, sleep_secs, load_ok,
                   exit_code>>

\* json.dump raises part-way (the disk is full): the except clause logs the
\* error, the file stays truncated
SaveDumpFails ==
    /\ pc \in {"dump", "final_dump"}
    /\ Fault
    /\ save_ok' = FALSE
    /\ pc' = IF pc = "dump" THEN "saved" ELSE "report"
    /\ UNCHANGED <<runs, attempts, harvest_file, all_videos, sessions, harvest_stats,
                   num_sessions, target_videos, session_num, successful_sessions,
                   session_config, videos, collector, guard_continue, calls, sleep_secs, load_ok,
                   exit_code>>

-----------------------------------------------------------------------------
(* run_smart_harvest after the save of a session *)

\* if session_num < num_sessions - 1
SleepsAfter == session_num < num_sessions - 1

\* a gap computation that counted itself as a session
PlansGapCounting ==
    /\ pc = "saved"
    /\ SleepsAfter
    /\ ~PlanRaises(session_num + 1)
    /\ \E base_gap \in BaseGapDraws :
           sleep_secs' = _calculate_session_gap(base_gap, session_config.gap_multiplier)
    /\ harvest_stats' =
           [harvest_stats EXCEPT !.total_sessions = @ + 1]
    /\ pc' = "sleep"
    /\ UNCHANGED <<runs, attempts, faults, harvest_file, all_videos, sessions,
                   num_sessions, target_videos, session_num, successful_sessions,
                   session_config, videos, collector, guard_continue, calls, load_ok, save_ok,
                   exit_code>>

\* the gap is computed, the next session is previewed, time.sleep(gap) begins
PlansGap ==
    /\ pc = "saved"
    /\ SleepsAfter
    /\ ~PlanRaises(session_num + 1)
    /\ \E base_gap \in BaseGapDraws :
           sleep_secs' = _calculate_session_gap(base_gap, session_config.gap_multiplier)
    /\ pc' = "sleep"
    /\ UNCHANGED <<runs, attempts, faults, harvest_file, all_videos, sessions, harvest_stats,
                   num_sessions, target_videos, session_num, successful_sessions,
                   session_config, videos, collector, guard_continue, calls, load_ok, save_ok,
                   exit_code>>

\* the preview _calculate_advanced_continuation_point(session_num + 1)
\* raises: the exception leaves run_smart_harvest and main returns 1
PreviewRaises ==
    /\ pc = "saved"
    /\ SleepsAfter
    /\ PlanRaises(session_num + 1)
    /\ Ends("failed", 1)
    /\ UNCHANGED faults

\* after the last session there is no gap: the loop goes on
SkipsGap ==
    /\ pc = "saved"
    /\ ~SleepsAfter
    /\ session_num' = session_num + 1
    /\ pc' = "loop"
    /\ UNCHANGED <<runs, attempts, faults, harvest_file, all_videos, sessions, harvest_stats,
                   num_sessions, target_videos, successful_sessions, session_config,
                   videos, collector, guard_continue, calls, sleep_secs, load_ok, save_ok,
                   exit_code>>

\* time.sleep returns: the next iteration of the for loop
WakesUp ==
    /\ pc = "sleep"
    /\ sleep_secs' = 0
    /\ session_num' = session_num + 1
    /\ pc' = "loop"
    /\ UNCHANGED <<runs, attempts, faults, harvest_file, all_videos, sessions, harvest_stats,
                   num_sessions, target_videos, successful_sessions, session_config,
                   videos, collector, guard_continue, calls, load_ok, save_ok, exit_code>>

\* KeyboardInterrupt during time.sleep: main logs it and returns 1
Interrupted ==
    /\ pc = "sleep"
    /\ Ends("interrupted", 1)
    /\ Fault

\* _display_harvest_report, run_smart_harvest returns and main returns 0
Returns ==
    /\ pc = "report"
    /\ Ends("done", 0)
    /\ UNCHANGED faults

\* the process is killed or the machine stops: what is on disk stays
CrashPoints == {"collecting", "dump", "final_dump", "sleep"}

Crashes ==
    /\ pc \in CrashPoints
    /\ Ends("crashed", -1)
    /\ Fault

Next ==
    \/ Main
    \/ Exhausted
    \/ TargetReached
    \/ ConfigRaises
    \/ StartSession
    \/ ScraperInitFails
    \/ CollectorReturns
    \/ CollectorErrors
    \/ CollectorRaises
    \/ SaveOpens
    \/ SaveOpenFails
    \/ SaveDumps
    \/ SaveDumpFails
    \/ PlansGap
    \/ PreviewRaises
    \/ SkipsGap
    \/ WakesUp
    \/ Interrupted
    \/ Returns
    \/ Crashes

Spec == Init /\ [][Next]_vars

-----------------------------------------------------------------------------
(* _should_continue_session on its own: a harvester whose collection holds
   the first c items of the feed is asked about a scraped list of n
   consecutive items that begins at item first *)

GuardCorpus == 24
GuardLen == 24
GuardFirst == 6

\* the first n items of the feed from item first on, as a collector returns
\* them
Consecutive(first, n) == [k \in 1..n |-> Extracted(first + k - 1, "good")]

GuardInit ==
    /\ pc = "guard"
    /\ runs = 0
    /\ attempts = 0
    /\ faults = 0
    /\ harvest_file = FileAbsent
    /\ exit_code = -1
    /\ \E c \in 0..GuardCorpus : all_videos = Consecutive(1, c)
    /\ sessions = << >>
    /\ harvest_stats = HarvestStats
    /\ num_sessions = 0
    /\ target_videos = 0
    /\ session_num = 0
    /\ successful_sessions = 0
    /\ session_config = NoConfig
    /\ videos = << >>
    /\ collector = "idle"
    /\ guard_continue = TRUE
    /\ calls = << >>
    /\ sleep_secs = 0
    /\ load_ok = TRUE
    /\ save_ok = TRUE

\* duplicate_checker(videos_data) is called and returns
GuardProbe ==
    /\ pc = "guard"
    /\ \E first \in 1..GuardFirst, n \in 0..GuardLen :
           /\ videos' = Consecutive(first, n)
           /\ guard_continue' = _should_continue_session(Consecutive(first, n))
    /\ pc' = "guard_done"
    /\ UNCHANGED <<runs, attempts, faults, harvest_file, all_videos, sessions,
                   harvest_stats, num_sessions, target_videos, session_num,
                   successful_sessions, session_config, collector, calls,
                   sleep_secs, load_ok, save_ok, exit_code>>

GuardNext == GuardProbe

GuardSpec == GuardInit /\ [][GuardNext]_vars

-----------------------------------------------------------------------------
(* Properties of the merge and of the duplicate guard *)

\* the step of run_harvest_session that merges the list the collector
\* returned
MergeStep == pc = "collecting" /\ pc' = "save"

\* C1: after a session's items are merged, the collection holds no identity
\* twice and its size is the number of distinct identities among the items
\* merged and the items already present.
C1_SizeAfterMerge ==
    [][MergeStep =>
          /\ Len(all_videos') = Cardinality(Keys(all_videos) \cup Keys(videos'))
          /\ Cardinality(Keys(all_videos')) = Len(all_videos')]_vars

\* a session of 20 items, 5 of them already present, has been merged into a
\* collection of 20
C1_Witness ==
    /\ pc = "save"
    /\ Len(videos) = 20
    /\ Len(sessions) = 2
    /\ Len(all_videos) = 35

\* the number of items of the list asked about that the collection holds
DuplicatesIn(scraped_videos) ==
    Cardinality({i \in 1..Len(scraped_videos) :
                    scraped_videos[i].video_id \in Keys(all_videos)})

\* C2: the guard answers TRUE for every list of fewer than 20 items
\* whatever it holds; for a list of 20 items or more it answers FALSE exactly
\* when the fraction of items already collected is at least 0.8 (4 of 5), so
\* FALSE for 16 of 20 and TRUE for 15 of 20.
C2_GuardVerdict ==
    pc = "guard_done" =>
        /\ Len(videos) < 20 => guard_continue
        /\ Len(videos) >= 20 =>
               (guard_continue <=> 5 * DuplicatesIn(videos) < 4 * Len(videos))
        /\ Len(videos) = 20 /\ DuplicatesIn(videos) = 16 => ~guard_continue
        /\ Len(videos) = 20 /\ DuplicatesIn(videos) = 15 => guard_continue

\* the guard has answered FALSE for a list of 20 items of which exactly 16
\* were collected before
C2_Witness ==
    /\ pc = "guard_done"
    /\ Len(videos) = 20
    /\ DuplicatesIn(videos) = 16
    /\ ~guard_continue

-----------------------------------------------------------------------------
(* Properties of the session loop and of persistence *)

\* C3: when the collector fails in a session, by raising or by returning an
\* error, no session record is appended and the recovery sleep of 60 to 180
\* seconds begins, after which the loop goes on.
C3_FailureRecovery ==
    [][collector = "running" /\ collector' \in {"error", "raised"} =>
          /\ sessions' = sessions
          /\ pc' = "sleep"
          /\ sleep_secs' \in 60..180]_vars

\* run_harvest_session returns None: the step that leads from the loop or
\* from the collector straight to the recovery sleep
FailedAttempt == pc \in {"loop", "collecting"} /\ pc' = "sleep"

\* the sum of videos_found over a list of session records
RECURSIVE VideosFound(_)
VideosFound(ss) ==
    IF ss = << >> THEN 0 ELSE Head(ss).videos_found + VideosFound(Tail(ss))

\* C4: a session attempt that fails leaves the collection, the session
\* history, the statistics and the file exactly as they were, and no item
\* is ever in the collection or in the file without a session record that
\* accounts for it.
C4_FailedAttemptChangesNothing ==
    /\ [][FailedAttempt =>
             /\ all_videos' = all_videos
             /\ sessions' = sessions
             /\ harvest_stats' = harvest_stats
             /\ harvest_file' = harvest_file]_vars
    /\ [](/\ Len(all_videos) <= VideosFound(sessions)
          /\ Len(harvest_file.data.all_videos)
                 <= VideosFound(harvest_file.data.sessions))

\* the collector has raised in a session that follows a recorded and saved
\* one
C4_Witness ==
    /\ pc = "sleep"
    /\ collector = "raised"
    /\ Len(sessions) = 1
    /\ Len(all_videos) = 20
    /\ harvest_file = FileJson(harvest_data)

\* C5: whenever the harvester sleeps between two sessions, the file holds a
\* whole document whose collection and session history are the ones in
\* memory.
C5_PersistedDuringSleep ==
    pc = "sleep" =>
        /\ harvest_file.kind # "torn"
        /\ harvest_file.data.all_videos = harvest_data.all_videos
        /\ harvest_file.data.sessions = harvest_data.sessions

\* the process dies between open(harvest_file, 'w') and the end of json.dump
DiesInSave == pc \in {"dump", "final_dump"} /\ pc' = "crashed"

\* C6: a process that dies during a save leaves a whole document in the
\* file, never an empty or a truncated one.
C6_AtomicSave ==
    [][DiesInSave => harvest_file'.kind # "torn"]_vars

\* C7: a harvester that could not read its file at startup runs no session
\* and opens no save over the file.
C7_RefusesUnreadableState ==
    ~load_ok => collector = "idle" /\ pc \notin {"dump", "final_dump"}

\* C8: after the save that follows a session has failed, no further session
\* is started.
C8_SaveFailureIsFatal ==
    ~save_ok => pc \notin {"sleep", "loop", "collecting"}

\* a step of a running harvester that stays running
Lifetime == pc \notin Stopped /\ pc' \notin Stopped

\* C9: over the lifetime of a harvester the collection never loses an item
\* and its size never decreases; what was there stays in place.
C9_NeverShrinks ==
    [][Lifetime =>
          /\ Len(all_videos') >= Len(all_videos)
          /\ SubSeq(all_videos', 1, Len(all_videos)) = all_videos]_vars

\* a second session whose 20 items were all collected before has been merged
\* into a collection that kept its 20 items
C9_Witness ==
    /\ pc = "save"
    /\ Len(sessions) = 2
    /\ Len(videos) = 20
    /\ Len(all_videos) = 20
    /\ ~guard_continue

\* the number of collector invocations of the run
RECURSIVE Invocations(_)
Invocations(cs) == IF cs = << >> THEN 0 ELSE Head(cs) + Invocations(Tail(cs))

\* C10: no session index sees the collector twice, the collector is invoked
\* at most num_sessions times in a run, and a run whose collector calls
\* return and whose sleeps end finishes by reaching the target or by
\* exhausting the indexes, never by an exception.
C10_NoRetryAndTerminates ==
    /\ \A i \in DOMAIN calls : calls[i] <= 1
    /\ Invocations(calls) <= num_sessions
    /\ pc # "failed"

-----------------------------------------------------------------------------
(* Properties of the target check *)

\* the positions of run_smart_harvest after its for loop
AfterLoop == {"final_save", "final_dump", "report"}

\* the positions inside the body of the for loop
InLoopBody == {"collecting", "save", "dump", "saved", "sleep"}

\* C11: an iteration plans, starts a session or sleeps only when the
\* collection is smaller than the target at its start; when the collection
\* has reached the target at the start of an iteration the loop is left, and
\* what follows the loop never plans, collects or sleeps again.
C11_TargetCheck ==
    [][/\ (pc = "loop" /\ pc' \in InLoopBody \cup {"failed"})
            => Len(all_videos) < target_videos
       /\ (pc = "loop" /\ Len(all_videos) >= target_videos /\ pc' # pc)
            => pc' = "final_save"
       /\ (pc \in AfterLoop /\ pc' \notin Stopped)
            => (pc' \in AfterLoop /\ calls' = calls /\ sleep_secs' = 0)]_vars

\* the loop has been left on the target with session indexes still unused
C11_Witness ==
    /\ pc = "final_save"
    /\ Len(all_videos) >= target_videos
    /\ session_num < num_sessions
    /\ Len(sessions) >= 1

-----------------------------------------------------------------------------
(* _calculate_session_gap on its own: a harvester with a history of up to
   GapHistory sessions is asked for the gap, with a base value of the
   window and a multiplier of the caller *)

GapHistory == 3

\* success rates of the sessions of a history: 0, 45, 50, 60 and 100 percent
GapRates == {ZeroRate, Rate(9, 20), Rate(10, 20), Rate(12, 20), Rate(20, 20)}

\* base values: the ends of the default window and of two other windows
GapBaseDraws == {1, session_gap_min, session_gap_max, 500}

\* multipliers: the three _generate_session_config gives and two others
HintDraws == {Mult(1, 1), Mult(3, 2), Mult(2, 1), Mult(5, 2), Mult(4, 1)}

\* a <= b for two multipliers
HintLessEq(a, b) == a.num * b.den <= b.num * a.den

\* the histories of n sessions
Histories(n) ==
    {[i \in 1..n |-> HarvestSession(20, rates[i], i, 0, None)] :
        rates \in [1..n -> GapRates]}

GapInit ==
    /\ pc = "gap"
    /\ runs = 0
    /\ attempts = 0
    /\ faults = 0
    /\ harvest_file = FileAbsent
    /\ exit_code = -1
    /\ all_videos = << >>
    /\ \E n \in 0..GapHistory : sessions \in Histories(n)
    /\ harvest_stats = HarvestStats
    /\ num_sessions = 0
    /\ target_videos = 0
    /\ session_num = 0
    /\ successful_sessions = 0
    /\ session_config = NoConfig
    /\ videos = << >>
    /\ collector = "idle"
    /\ guard_continue = TRUE
    /\ calls = << >>
    /\ sleep_secs = 0
    /\ load_ok = TRUE
    /\ save_ok = TRUE

\* gap = self._calculate_session_gap(gap_multiplier) is called and returns;
\* session_config keeps the arguments of the call
GapDrawn ==
    /\ pc = "gap"
    /\ \E base_gap \in GapBaseDraws, gap_multiplier \in HintDraws :
           /\ session_config' = [base_gap |-> base_gap, gap_multiplier |-> gap_multiplier]
           /\ sleep_secs' = _calculate_session_gap(base_gap, gap_multiplier)
    /\ pc' = "gap_done"
    /\ UNCHANGED <<runs, attempts, faults, harvest_file, all_videos, sessions,
                   harvest_stats, num_sessions, target_videos, session_num,
                   successful_sessions, videos, collector, guard_continue, calls,
                   load_ok, save_ok, exit_code>>

GapNext == GapDrawn

GapSpec == GapInit /\ [][GapNext]_vars

\* C12: the gap _calculate_session_gap returns is between 30 and 300
\* seconds, whatever the history, the multiplier and the base value.
C12_GapClamped ==
    pc = "gap_done" => sleep_secs \in 30..300

\* a gap above 300 seconds was cut to 300 after a drop of the success rate,
\* and the same history gives the base value 1 a gap raised to 30
C12_Witness ==
    /\ pc = "gap_done"
    /\ Len(sessions) = 2
    /\ RateDropsBy(sessions[2].success_rate, sessions[1].success_rate, 10)
    /\ session_config.base_gap = session_gap_max
    /\ ScaledGap(session_gap_max, session_config.gap_multiplier) > 300
    /\ sleep_secs = 300
    /\ _calculate_session_gap(1, Mult(1, 1)) = 30

\* C13: with the history and the base value fixed, a larger multiplier
\* never gives a smaller gap.
C13_GapMonotone ==
    pc = "gap_done" =>
        \A other \in HintDraws :
            /\ HintLessEq(other, session_config.gap_multiplier)
                   => _calculate_session_gap(session_config.base_gap, other) <= sleep_secs
            /\ HintLessEq(session_config.gap_multiplier, other)
                   => sleep_secs <= _calculate_session_gap(session_config.base_gap, other)

\* the multiplier 2.5 has given a longer gap than the multiplier 1 gives
\* with the same history and base value
C13_Witness ==
    /\ pc = "gap_done"
    /\ Len(sessions) = 1
    /\ session_config.gap_multiplier = Mult(5, 2)
    /\ session_config.base_gap = session_gap_min
    /\ sleep_secs = 75
    /\ _calculate_session_gap(session_config.base_gap, Mult(1, 1)) = 30

-----------------------------------------------------------------------------
(* _generate_session_config on its own: a harvester constructed from a
   document with up to PlanCorpus items and a history is asked to plan the
   session of an index up to PlanIndex *)

PlanCorpus == 3

PlanIndex == 5

\* the date strings of the items: none, four parseable ones and one that
\* is not
PlanDates ==
    { << >>, <<"7", "hours", "ago">>, <<"2", "days", "ago">>,
      <<"5", "months", "ago">>, <<"3", "years", "ago">>, <<"Yesterday">> }

\* the collections of n items
Corpora(n) ==
    {[i \in 1..n |-> VideoData(i, ProperTitle, dates[i])] :
        dates \in [1..n -> PlanDates]}

\* the histories: none, a first session, and a third session that was
\* anchored on an item dated "3 years ago"
PlanHistories ==
    { << >>,
      <<HarvestSession(20, Rate(20, 20), 1, 300, Some(FreshStartPoint))>>,
      <<HarvestSession(20, Rate(20, 20), 3, 300,
                       Some(ContinuationPoint("video_id_anchor", 24,
                                              Some(<<"3", "years", "ago">>),
                                              Some(1), 39, TRUE, "deep")))>> }

PlannerInit ==
    /\ pc = "plan"
    /\ runs = 0
    /\ attempts = 0
    /\ faults = 0
    /\ harvest_file = FileAbsent
    /\ exit_code = -1
    /\ \E n \in 0..PlanCorpus : all_videos \in Corpora(n)
    /\ sessions \in PlanHistories
    /\ harvest_stats = HarvestStats
    /\ num_sessions = 0
    /\ target_videos = 0
    /\ session_num = 0
    /\ successful_sessions = 0
    /\ session_config = NoConfig
    /\ videos = << >>
    /\ collector = "idle"
    /\ guard_continue = TRUE
    /\ calls = << >>
    /\ sleep_secs = 0
    /\ load_ok = TRUE
    /\ save_ok = TRUE

\* session_config = self._generate_session_config(session_num, ...) returns
Plans ==
    /\ pc = "plan"
    /\ \E snum \in 0..PlanIndex :
           /\ ~PlanRaises(snum)
           /\ session_num' = snum
           /\ \E scroll_offset \in OffsetDrawsAt(snum) :
                  session_config' = _generate_session_config(snum, scroll_offset)
    /\ pc' = "planned"
    /\ UNCHANGED <<runs, attempts, faults, harvest_file, all_videos, sessions,
                   harvest_stats, num_sessions, target_videos,
                   successful_sessions, videos, collector, guard_continue, calls,
                   sleep_secs, load_ok, save_ok, exit_code>>

\* self._generate_session_config(session_num, ...) raises
PlanFails ==
    /\ pc = "plan"
    /\ \E snum \in 0..PlanIndex :
           /\ PlanRaises(snum)
           /\ session_num' = snum
    /\ pc' = "plan_raised"
    /\ UNCHANGED <<runs, attempts, faults, harvest_file, all_videos, sessions,
                   harvest_stats, num_sessions, target_videos,
                   successful_sessions, session_config, videos, collector,
                   guard_continue, calls, sleep_secs, load_ok, save_ok, exit_code>>

PlannerNext ==
    \/ Plans
    \/ PlanFails

PlannerSpec == PlannerInit /\ [][PlannerNext]_vars

\* the call of the planner is over
PlanDone == pc \in {"planned", "plan_raised"}

\* C14: for index 0 the planner returns fresh_start with scroll offset 0, no
\* anchor and no target date, whatever the collection and the history.
C14_FreshStart ==
    (PlanDone /\ session_num = 0) =>
        /\ pc = "planned"
        /\ session_config.continuation.strategy = "fresh_start"
        /\ session_config.continuation.scroll_offset = 0
        /\ session_config.continuation.anchor_video_id = None
        /\ session_config.continuation.target_date_range = None

\* index 0 has been planned for a collection of dated items and a history
C14_Witness ==
    /\ pc = "planned"
    /\ session_num = 0
    /\ Len(Dated(all_videos)) = 3
    /\ sessions # << >>
    /\ session_config.continuation.strategy = "fresh_start"

\* C15: for index 1 the planner returns scroll_offset with an offset between
\* 10 and 15, no anchor and no target date, whatever the collection and the
\* history.
C15_ScrollOffset ==
    (PlanDone /\ session_num = 1) =>
        /\ pc = "planned"
        /\ session_config.continuation.strategy = "scroll_offset"
        /\ session_config.continuation.scroll_offset \in 10..15
        /\ session_config.continuation.anchor_video_id = None
        /\ session_config.continuation.target_date_range = None

\* index 1 has been planned with the offset 15 for a collection of dated
\* items and a history
C15_Witness ==
    /\ pc = "planned"
    /\ session_num = 1
    /\ Len(Dated(all_videos)) = 3
    /\ sessions # << >>
    /\ session_config.continuation.scroll_offset = 15

\* the positions in the collection of the items that have a date
AgedItems == {i \in 1..Len(all_videos) : all_videos[i].date # << >>}

\* the age priority of the item at position i of the collection
PriorityAt(i) == _parse_date_to_priority(all_videos[i].date)

\* the item at position i stands at rank floor(n / 2), counted from 0, among
\* the n aged items in ascending priority
MedianRank(i) ==
    LET n == Cardinality(AgedItems)
    IN  /\ Cardinality({j \in AgedItems : PriorityAt(j) < PriorityAt(i)}) <= n \div 2
        /\ n \div 2 < Cardinality({j \in AgedItems : PriorityAt(j) <= PriorityAt(i)})

\* C16: for every index from 2 on and every collection with at least one
\* dated item the planner returns video_id_anchor with scroll offset
\* min(index * 12, 50) and the date filter active; the anchor is the item at
\* the median rank of the dated items by age priority and the target date is
\* that item's date.
C16_VideoAnchor ==
    (PlanDone /\ session_num >= 2 /\ AgedItems # {}) =>
        /\ pc = "planned"
        /\ session_config.continuation.strategy = "video_id_anchor"
        /\ session_config.continuation.scroll_offset =
               (IF session_num * 12 < 50 THEN session_num * 12 ELSE 50)
        /\ session_config.continuation.date_filter_active
        /\ \E i \in AgedItems :
               /\ session_config.continuation.anchor_video_id =
                      Some(all_videos[i].video_id)
               /\ session_config.continuation.target_date_range =
                      Some(all_videos[i].date)
               /\ MedianRank(i)

\* index 5 has been planned for three items of three different ages given
\* out of order: the offset is capped at 50 and the anchor is the item of
\* the middle age
C16_Witness ==
    /\ pc = "planned"
    /\ session_num = 5
    /\ Len(all_videos) = 3
    /\ all_videos[1].date = <<"3", "years", "ago">>
    /\ all_videos[2].date = <<"2", "days", "ago">>
    /\ all_videos[3].date = <<"5", "months", "ago">>
    /\ session_config.continuation.scroll_offset = 50
    /\ session_config.continuation.anchor_video_id = Some(3)

\* the dates the continuation points of a history hold
RecordedBuckets(ss) ==
    {ss[i].continuation_point[1].target_date_range[1] :
        i \in {j \in 1..Len(ss) :
                  /\ ss[j].continuation_point # None
                  /\ ss[j].continuation_point[1].target_date_range # None}}

\* C17: for every index from 2 on with no dated item in the collection and
\* no date recorded in the history, the empty collection included, the
\* planner returns deep_scroll with scroll offset index * 10, no anchor and
\* no target date; and planning never fails, whatever the index, the
\* collection and the history.
C17_DeepScrollFallback ==
    PlanDone =>
        /\ pc = "planned"
        /\ (session_num >= 2 /\ AgedItems = {} /\ RecordedBuckets(sessions) = {}) =>
               /\ session_config.continuation.strategy = "deep_scroll"
               /\ session_config.continuation.scroll_offset = session_num * 10
               /\ session_config.continuation.anchor_video_id = None
               /\ session_config.continuation.target_date_range = None

\* the date of a set of dates with the highest age priority
LeastRecent(dates) ==
    CHOOSE d \in dates :
        \A e \in dates : _parse_date_to_priority(e) <= _parse_date_to_priority(d)

\* C18: for every index from 2 on, when no item of the collection has a
\* date but the history recorded one, the planner returns date_anchor with
\* scroll offset index * 8 and the least recent recorded date as target
\* (stated for the calls that return).
C18_DateAnchor ==
    (pc = "planned" /\ session_num >= 2 /\ AgedItems = {}
        /\ RecordedBuckets(sessions) # {}) =>
        /\ session_config.continuation.strategy = "date_anchor"
        /\ session_config.continuation.scroll_offset = session_num * 8
        /\ session_config.continuation.target_date_range =
               Some(LeastRecent(RecordedBuckets(sessions)))

\* no call of the planner returns date_anchor
DateAnchorNeverPlanned ==
    pc = "planned" => session_config.continuation.strategy # "date_anchor"

-----------------------------------------------------------------------------
(* The scenario of three sessions *)

\* the third session of a first run returns: session 0 found 20 items, all
\* new, session 1 found 20 items of which 15 were new, and the collector of
\* session 2 was stopped by the duplicate checker with nothing but items
\* collected before among its first 20
ThirdSessionOfDuplicates ==
    /\ pc = "collecting"
    /\ session_num = 2
    /\ Len(sessions) = 2
    /\ sessions[1].videos_found = 20
    /\ sessions[2].videos_found = 20
    /\ harvest_stats.total_videos = 40
    /\ Len(all_videos) = 35
    /\ pc' = "save"
    /\ ~guard_continue'
    /\ Len(videos') >= 20
    /\ \A i \in 1..20 : videos'[i].video_id \in Keys(all_videos)

\* C19: from an empty collection, after session 0 returned 20 new items and
\* session 1 returned 15 new and 5 known ones, a session 2 of known items
\* only, stopped by the duplicate guard at item 20, leaves a collection of
\* 35 items and three session records, the third with at most 20 items
\* found.
C19_ThreeSessions ==
    [][ThirdSessionOfDuplicates =>
          /\ Len(all_videos') = 35
          /\ Len(sessions') = 3
          /\ sessions'[3].videos_found <= 20]_vars

\* the three sessions are over: 35 items, three records, the third stopped
\* at 20 items of a page of 40
C19_Witness ==
    /\ pc = "save"
    /\ session_num = 2
    /\ Len(sessions) = 3
    /\ sessions[1].videos_found = 20
    /\ sessions[2].videos_found = 20
    /\ sessions[3].videos_found = 20
    /\ harvest_stats.total_videos = 60
    /\ Len(all_videos) = 35
    /\ ~guard_continue

-----------------------------------------------------------------------------
(* Load followed by save *)

\* __init__ reads a whole document
LoadStep == pc \in Stopped /\ pc' = "loop" /\ harvest_file.kind = "json"

\* json.dump completes in a harvester whose collection and history are
\* what a load of the file as it stands gives
SavesAsLoaded ==
    /\ pc \in {"dump", "final_dump"}
    /\ harvest_file.kind = "json"
    /\ harvest_file'.kind = "json"
    /\ all_videos = Loaded(harvest_file).all_videos
    /\ sessions = Loaded(harvest_file).sessions

\* the collection and the history of the document a save would write after
\* a load, and of the document a save has written after a load, are those
\* of the document that was loaded
LoadSaveUnchanged ==
    /\ LoadStep =>
           /\ harvest_data'.all_videos = harvest_file.data.all_videos
           /\ harvest_data'.sessions = harvest_file.data.sessions
    /\ SavesAsLoaded =>
           /\ harvest_file'.data.all_videos = harvest_file.data.all_videos
           /\ harvest_file'.data.sessions = harvest_file.data.sessions
           /\ Loaded(harvest_file').all_videos = all_videos
           /\ Loaded(harvest_file').sessions = sessions

\* C20: loading a persisted state and saving it at once writes the same
\* collection (ids and fields of every item, in order) and the same session
\* history (records, order, continuation points); repeating it changes
\* nothing.
C20_LoadSaveRoundTrip == [][LoadSaveUnchanged]_vars

\* a second process has loaded a document of two sessions whose collection
\* has reached the target and holds dated items, and has saved it without
\* running a session
C20_Witness ==
    /\ pc = "report"
    /\ runs = 2
    /\ collector = "idle"
    /\ harvest_file.kind = "json"
    /\ all_videos = Loaded(harvest_file).all_videos
    /\ Len(all_videos) >= target_videos
    /\ Len(harvest_file.data.sessions) = 2
    /\ "continuation_point" \in DOMAIN harvest_file.data.sessions[2]
    /\ \E i \in 1..Len(all_videos) : all_videos[i].date # << >>

-----------------------------------------------------------------------------
(* Exit code *)

\* C21: a process that completed normally, and one cancelled during the
\* sleep between two sessions, exit with code 0; a process exits with a
\* code other than 0 only after a fatal error of the orchestrator.
C21_ExitCodes ==
    /\ pc = "done" => exit_code = 0
    /\ pc = "interrupted" => exit_code = 0
    /\ (pc \in Stopped /\ exit_code > 0) => pc = "failed"

-----------------------------------------------------------------------------
(* The multiplier handed to the gap computation *)

\* C22: the multiplier passed to _calculate_session_gap after the session
\* at index i is 2.5 when i >= 2; otherwise 2.0 when the success rate of
\* the last recorded session, the one just completed at index i, is below
\* 50, and 1.0 otherwise.
C22_HintMultiplier ==
    (pc = "saved" /\ SleepsAfter /\ collector = "returned") =>
        session_config.gap_multiplier =
            IF session_num >= 2 THEN Mult(5, 2)
            ELSE IF RateLess(sessions[Len(sessions)].success_rate,
                             Rate(50, 100))
                 THEN Mult(2, 1)
                 ELSE Mult(1, 1)

-----------------------------------------------------------------------------
(* _parse_date_to_priority alone *)

\* the largest number written in a date
DateMagnitude == 11

UnitWords == {"year", "years", "month", "months", "day", "days", "hour", "hours"}

\* the dates the page shows: a number, a unit and "ago", with or without a
\* word before; no date; and texts without a number and a unit
DateStrings ==
    {<<Numerals[n], w, "ago">> : n \in 1..DateMagnitude, w \in UnitWords}
        \cup {<<"Streamed", Numerals[n], w, "ago">> :
                  n \in 1..DateMagnitude, w \in {"days", "hours"}}
        \cup {<< >>, <<"banana">>, <<"invalid", "date">>, <<"Yesterday">>,
              <<"a", "year", "ago">>, <<"2", "weeks", "ago">>,
              <<"years", "ago">>, <<"3">>}

PriorityInit ==
    /\ pc = "parse"
    /\ runs = 0
    /\ attempts = 0
    /\ faults = 0
    /\ harvest_file = FileAbsent
    /\ exit_code = -1
    /\ all_videos = << >>
    /\ sessions = << >>
    /\ harvest_stats = HarvestStats
    /\ num_sessions = 0
    /\ target_videos = 0
    /\ session_num = 0
    /\ successful_sessions = 0
    /\ \E date_str \in DateStrings :
           session_config = [date_str |-> date_str, priority |-> -1]
    /\ videos = << >>
    /\ collector = "idle"
    /\ guard_continue = TRUE
    /\ calls = << >>
    /\ sleep_secs = 0
    /\ load_ok = TRUE
    /\ save_ok = TRUE

\* self._parse_date_to_priority(date_str) is called and returns
Parses ==
    /\ pc = "parse"
    /\ session_config' =
           [session_config EXCEPT
                !.priority = _parse_date_to_priority(session_config.date_str)]
    /\ pc' = "parsed"
    /\ UNCHANGED <<runs, attempts, faults, harvest_file, all_videos, sessions,
                   harvest_stats, num_sessions, target_videos, session_num,
                   successful_sessions, videos, collector, guard_continue, calls,
                   sleep_secs, load_ok, save_ok, exit_code>>

PriorityNext == Parses

PrioritySpec == PriorityInit /\ [][PriorityNext]_vars

\* the date is the number n, the unit word w and "ago"
IsBucket(date_str, n, w) == date_str = <<Numerals[n], w, "ago">>

\* C23: the priority of a date of magnitude n is n * 365 for years, n * 30
\* for months, n for days and 0 for hours; no date gives 9999 and any other
\* text without a number and a unit gives 5000.
C23_AgePriority ==
    pc = "parsed" =>
        LET date_str == session_config.date_str
            priority == session_config.priority
        IN  /\ \A n \in 1..Len(Numerals) :
                   /\ \A w \in {"year", "years"} :
                          IsBucket(date_str, n, w) => priority = n * 365
                   /\ \A w \in {"month", "months"} :
                          IsBucket(date_str, n, w) => priority = n * 30
                   /\ \A w \in {"day", "days"} :
                          IsBucket(date_str, n, w) => priority = n
                   /\ \A w \in {"hour", "hours"} :
                          IsBucket(date_str, n, w) => priority = 0
            /\ date_str = << >> => priority = 9999
            /\ date_str \in {<<"banana">>, <<"invalid", "date">>,
                              <<"Yesterday">>, <<"a", "year", "ago">>,
                              <<"2", "weeks", "ago">>, <<"years", "ago">>,
                              <<"3">>}
                   => priority = 5000
            /\ date_str = <<"3", "years", "ago">> => priority = 1095
            /\ date_str = <<"5", "months", "ago">> => priority = 150
            /\ date_str = <<"2", "days", "ago">> => priority = 2
            /\ date_str = <<"1", "hour", "ago">> => priority = 0

\* "7 hours ago" has been converted to 0
C23_Witness ==
    /\ pc = "parsed"
    /\ session_config.date_str = <<"7", "hours", "ago">>
    /\ session_config.priority = 0

-----------------------------------------------------------------------------
(* Well-formed continuation points *)

\* an anchor only with video_id_anchor, a target date only with
\* video_id_anchor or date_anchor, and video_id_anchor never without anchor
WellFormedPoint(cp) ==
    /\ cp.anchor_video_id # None => cp.strategy = "video_id_anchor"
    /\ cp.target_date_range # None =>
           cp.strategy \in {"video_id_anchor", "date_anchor"}
    /\ cp.strategy = "video_id_anchor" => cp.anchor_video_id # None

\* C24: the continuation point of every generated session configuration
\* and the one stored in every session record is well formed: an anchor
\* implies video_id_anchor, a target date implies video_id_anchor or
\* date_anchor, and a video_id_anchor point carries an anchor.
C24_WellFormedPoints ==
    /\ WellFormedPoint(session_config.continuation)
    /\ \A i \in 1..Len(sessions) :
           sessions[i].continuation_point # None =>
               WellFormedPoint(sessions[i].continuation_point[1])

\* the third session has been recorded with a video_id_anchor point
C24_Witness ==
    /\ pc = "save"
    /\ Len(sessions) = 3
    /\ sessions[3].continuation_point # None
    /\ sessions[3].continuation_point[1].strategy = "video_id_anchor"
    /\ sessions[3].continuation_point[1].anchor_video_id # None
    /\ sessions[3].continuation_point[1].target_date_range # None

-----------------------------------------------------------------------------
(* A session of no items and a failed collector *)

\* the collector returns no item
ReturnsNothing ==
    pc = "collecting" /\ collector' = "returned" /\ videos' = << >>

\* the collector fails, inside run_scraper_return_videos or out of it
CollectorFails ==
    pc = "collecting" /\ collector' \in {"error", "raised"}

\* the sleep that follows a session whose collector returned
GapAfterReturn ==
    pc = "saved" /\ collector = "returned" /\ pc' = "sleep"

\* C25: a collector that returns no item is not a failure: a record with
\* videos_found = 0 is appended, the collection is unchanged, the state is
\* saved and the gap of _calculate_session_gap follows; a collector that
\* fails appends no record.
C25_EmptyIsNotFailure ==
    /\ [][ReturnsNothing =>
             /\ sessions' = Append(sessions, sessions'[Len(sessions')])
             /\ sessions'[Len(sessions')].videos_found = 0
             /\ all_videos' = all_videos
             /\ pc' = "save"]_vars
    /\ [][GapAfterReturn =>
             /\ harvest_file = FileJson(harvest_data)
             /\ \E base_gap \in BaseGapDraws :
                    sleep_secs' = _calculate_session_gap(
                                      base_gap, session_config.gap_multiplier)]_vars
    /\ [][CollectorFails => sessions' = sessions]_vars

-----------------------------------------------------------------------------
(* First seen wins *)

\* C26: merging an item whose id is already in the collection leaves the
\* stored item as it is: after a merge every id of the session is stored
\* with the item that was there before or, for a new id, with the item of
\* the session; and no step of a harvester changes the item stored under
\* an id.
C26_FirstSeenWins ==
    /\ [][MergeStep =>
             \A i \in 1..Len(videos') :
                 Lookup(all_videos', videos'[i].video_id) =
                     IF videos'[i].video_id \in Keys(all_videos)
                     THEN Lookup(all_videos, videos'[i].video_id)
                     ELSE videos'[i]]_vars
    /\ [][Lifetime =>
             \A k \in Keys(all_videos) :
                 /\ k \in Keys(all_videos')
                 /\ Lookup(all_videos', k) = Lookup(all_videos, k)]_vars

\* a session has been merged that brought, under an id of the collection,
\* an item with other fields than the stored one
C26_Witness ==
    /\ pc = "save"
    /\ \E i \in 1..Len(videos) :
           /\ videos[i].video_id \in Keys(all_videos)
           /\ Lookup(all_videos, videos[i].video_id) # videos[i]
           /\ Lookup(all_videos, videos[i].video_id).title = ProperTitle
           /\ videos[i].title = FallbackTitle

-----------------------------------------------------------------------------
(* Two calls of _calculate_session_gap *)

\* C27: on one harvester and history, the gap a call with the multiplier
\* 2.5 returns is never smaller than the gap an earlier call with the
\* default multiplier 1.0 returned, each call with its own base value from
\* the window.
C27_ExtendedGapNotSmaller ==
    (/\ pc = "gap_done"
     /\ session_config.gap_multiplier = Mult(5, 2)
     /\ session_config.base_gap \in session_gap_min..session_gap_max) =>
        \A base_gap \in BaseGapDraws :
            _calculate_session_gap(base_gap, Mult(1, 1)) <= sleep_secs

-----------------------------------------------------------------------------
(* The gap as a formula *)

\* the last session's success rate is more than 10 points below the one
\* of the session before
Degradation ==
    /\ Len(sessions) >= 2
    /\ sessions[Len(sessions)].success_rate.num
           * sessions[Len(sessions) - 1].success_rate.den
       < (sessions[Len(sessions) - 1].success_rate.num
              - 10 * sessions[Len(sessions) - 1].success_rate.den)
           * sessions[Len(sessions)].success_rate.den

\* C28: the gap is floor(base * multiplier * d * s) brought into [30, 300]
\* once at the end, with d = 3 exactly when the last session's success rate
\* is more than 10 points below the one before (else 1) and s = 2.5 exactly
\* when the history has at least 2 sessions (else 1).
C28_GapFormula ==
    pc = "gap_done" =>
        LET base == session_config.base_gap
            hint == session_config.gap_multiplier
            d == IF Degradation THEN 3 ELSE 1
            s_num == IF Len(sessions) >= 2 THEN 5 ELSE 1
            s_den == IF Len(sessions) >= 2 THEN 2 ELSE 1
            product == (base * hint.num * d * s_num) \div (hint.den * s_den)
        IN  sleep_secs = IF product < 30 THEN 30
                         ELSE IF product > 300 THEN 300
                         ELSE product

\* base 30 with the multiplier 1 after a drop of the success rate in a
\* history of two sessions: 30 * 3 * 2.5 = 225, inside the limits
C28_Witness ==
    /\ pc = "gap_done"
    /\ Len(sessions) = 2
    /\ Degradation
    /\ session_config.base_gap = session_gap_min
    /\ session_config.gap_multiplier = Mult(1, 1)
    /\ sleep_secs = 225

-----------------------------------------------------------------------------
(* One session at a time, one place where the collection changes *)

\* the collector returns its items
ReturnStep == pc = "collecting" /\ collector' = "returned"

\* a step of a harvester that changes the collection
CorpusChanges == Lifetime /\ all_videos' # all_videos

\* a step of a harvester that changes the session history
HistoryChanges == Lifetime /\ sessions' # sessions

\* C29: the collection changes only in the merge that follows the return
\* of the collector, and the history only when the session is recorded;
\* a collector runs only between the start and the end of its session, one
\* at a time, and the items it returns are what the duplicate checker lets
\* through against the collection as it was when the session started.
C29_MergeAfterReturn ==
    /\ [][CorpusChanges =>
             /\ ReturnStep
             /\ all_videos' = Merge(all_videos, videos')]_vars
    /\ [][HistoryChanges => MergeStep /\ Len(sessions') = Len(sessions) + 1]_vars
    /\ [][ReturnStep =>
             \E draw \in CollectorDraws :
                 videos' = scrape_videos_with_continuation(
                               Page(draw),
                               session_config.continuation.target_date_range)]_vars
    /\ [](collector = "running" <=> pc = "collecting")

\* the second session has returned 20 items after the checker was asked,
\* and the merge has added 15 of them
C29_Witness ==
    /\ pc = "save"
    /\ collector = "returned"
    /\ Len(sessions) = 2
    /\ Len(videos) = 20
    /\ guard_continue
    /\ Len(all_videos) = 35

-----------------------------------------------------------------------------
(* scrape_videos_with_continuation alone: a collector scrapes a page of up
   to ScrapePage items for a harvester whose collection holds up to
   ScrapeCorpus consecutive items of the page *)

ScrapePage == 46
ScrapeCorpus == 40
ScrapeFirst == 7

\* the values of date_filter: none, and the date of the oldest items
ScrapeFilters == {None, Some(<<"3", "years", "ago">>)}

ScrapeInit ==
    /\ pc = "scrape"
    /\ runs = 0
    /\ attempts = 0
    /\ faults = 0
    /\ harvest_file = FileAbsent
    /\ exit_code = -1
    /\ \E first \in 1..ScrapeFirst, c \in 0..ScrapeCorpus :
           all_videos = Consecutive(first, c)
    /\ sessions = << >>
    /\ harvest_stats = HarvestStats
    /\ num_sessions = 0
    /\ target_videos = 0
    /\ session_num = 0
    /\ successful_sessions = 0
    /\ session_config = NoConfig
    /\ videos = << >>
    /\ collector = "idle"
    /\ guard_continue = TRUE
    /\ calls = << >>
    /\ sleep_secs = 0
    /\ load_ok = TRUE
    /\ save_ok = TRUE

\* scrape_videos_with_continuation(scroll_count, date_filter,
\* self._should_continue_session) is called and returns; session_config
\* keeps the page and the filter of the call
Scrapes ==
    /\ pc = "scrape"
    /\ \E n \in 0..ScrapePage, date_filter \in ScrapeFilters :
           /\ session_config' = [page |-> n, date_filter |-> date_filter]
           /\ videos' = scrape_videos_with_continuation(Consecutive(1, n), date_filter)
           /\ guard_continue' = ~StoppedByGuard(Consecutive(1, n), date_filter)
    /\ pc' = "scraped"
    /\ UNCHANGED <<runs, attempts, faults, harvest_file, all_videos, sessions,
                   harvest_stats, num_sessions, target_videos, session_num,
                   successful_sessions, collector, calls, sleep_secs, load_ok,
                   save_ok, exit_code>>

ScrapeNext == Scrapes

ScrapeSpec == ScrapeInit /\ [][ScrapeNext]_vars

\* the item passes the date filter
PassesFilter(video, date_filter) ==
    \/ date_filter = None
    \/ video.date = << >>
    \/ Contains(video.date, date_filter[1])

\* the items of the page the call of the state would collect if nothing
\* stopped it
Passing ==
    LET date_filter == session_config.date_filter
        Keep(video) == PassesFilter(video, date_filter)
    IN  SelectSeq(Consecutive(1, session_config.page), Keep)

\* the numbers of items collected at which the duplicate checker, asked at
\* every positive multiple of 20, answers False
StopPoints ==
    {m \in 1..Len(Passing) :
        m % 20 = 0 /\ ~_should_continue_session(SubSeq(Passing, 1, m))}

\* C30: the collector asks the duplicate checker exactly when the number
\* of items collected is a positive multiple of 20 and stops at the first
\* answer False: it returns the items up to the first such point, or all
\* of them when there is none; a session stopped by the checker returns a
\* positive multiple of 20 items, and one whose first 20 items are at least
\* 80% known returns exactly 20.
C30_GuardEveryTwenty ==
    pc = "scraped" =>
        /\ StopPoints = {} => videos = Passing /\ guard_continue
        /\ StopPoints # {} =>
               /\ ~guard_continue
               /\ Len(videos) \in StopPoints
               /\ \A m \in StopPoints : Len(videos) <= m
               /\ videos = SubSeq(Passing, 1, Len(videos))
        /\ ~guard_continue => Len(videos) > 0 /\ Len(videos) % 20 = 0
        /\ (/\ Len(Passing) >= 20
            /\ 5 * DuplicatesIn(SubSeq(Passing, 1, 20)) >= 4 * 20)
               => Len(videos) = 20

\* a page of 46 items was left at item 40: 15 of the first 20 items were
\* known, and 35 of the first 40
C30_Witness ==
    /\ pc = "scraped"
    /\ session_config.page = 46
    /\ session_config.date_filter = None
    /\ ~guard_continue
    /\ Len(videos) = 40
    /\ DuplicatesIn(SubSeq(videos, 1, 20)) = 15
    /\ DuplicatesIn(videos) = 35

-----------------------------------------------------------------------------
(* The session history only grows at its end *)

\* a collector is running with the point planned for the index of its
\* session
RunsAsPlanned ==
    \E scroll_offset \in OffsetDrawsAt(session_num) :
        session_config.continuation =
            _calculate_advanced_continuation_point(session_num, scroll_offset)

\* C31: the history is append-only: no step of a harvester changes, moves
\* or removes a record, a session that returns appends exactly one record
\* at the end, and that record holds the continuation point planned for the
\* index of the session and handed to the collector.
C31_AppendOnlyHistory ==
    /\ [][Lifetime =>
             /\ Len(sessions') >= Len(sessions)
             /\ SubSeq(sessions', 1, Len(sessions)) = sessions]_vars
    /\ [][ReturnStep =>
             /\ Len(sessions') = Len(sessions) + 1
             /\ sessions'[Len(sessions')].continuation_point =
                    Some(session_config.continuation)
             /\ sessions'[Len(sessions')].videos_found = Len(videos')]_vars
    /\ [](pc = "collecting" => RunsAsPlanned)

\* the second session of a run has been recorded behind the first with the
\* scroll_offset point it ran with
C31_Witness ==
    /\ pc = "save"
    /\ collector = "returned"
    /\ session_num = 1
    /\ Len(sessions) = 2
    /\ sessions[1].continuation_point[1].strategy = "fresh_start"
    /\ sessions[2].continuation_point = Some(session_config.continuation)
    /\ session_config.continuation.strategy = "scroll_offset"
    /\ session_config.continuation.scroll_offset = 15

-----------------------------------------------------------------------------
(* Offset and expected depth of the planned points *)

\* the margin between scroll offset and expected depth claimed for a
\* strategy
Margin(strategy) ==
    CASE strategy = "scroll_offset" -> 20
      [] strategy \in {"video_id_anchor", "date_anchor"} -> 15
      [] strategy = "deep_scroll" -> 25

\* C32: every point the planner returns for an index from 0 on has a
\* scroll offset of at least 0 and an expected depth of the offset plus 20
\* for scroll_offset, 15 for video_id_anchor and date_anchor, 25 for
\* deep_scroll; the expected depth of fresh_start is 0.
C32_ExpectedDepth ==
    pc = "planned" =>
        LET cp == session_config.continuation
        IN  /\ cp.scroll_offset >= 0
            /\ cp.strategy = "fresh_start" => cp.expected_scroll_depth = 0
            /\ cp.strategy # "fresh_start" =>
                   cp.expected_scroll_depth =
                       cp.scroll_offset + Margin(cp.strategy)

\* a deep_scroll point for index 5: offset 50 and depth 75
C32_Witness ==
    /\ pc = "planned"
    /\ session_num = 5
    /\ session_config.continuation.strategy = "deep_scroll"
    /\ session_config.continuation.scroll_offset = 50
    /\ session_config.continuation.expected_scroll_depth = 75

-----------------------------------------------------------------------------
(* The planner and the order of insertion *)

\* dated_videos after its sort for a harvester whose collection is vs
DatedPairs(vs) ==
    LET dated == Dated(vs)
    IN  SortPairs([i \in 1..Len(dated) |->
                      <<dated[i], _parse_date_to_priority(dated[i].date)>>])

\* anchor_video of the planner for a harvester whose collection is vs
AnchorVideo(vs) ==
    LET pairs == DatedPairs(vs)
        target_index == Min(Len(pairs) \div 2, Len(pairs) - 1)
    IN  pairs[target_index + 1][1]

\* the collections with the items of vs, inserted in any order
Reorderings(vs) ==
    {[i \in 1..Len(vs) |-> vs[f[i]]] : f \in Permutations(1..Len(vs))}

\* C33: the choice of the planner does not depend on the order in which
\* the items were inserted: for the same index, items and history, it
\* gives the same strategy, anchor and target date for every order.
C33_OrderIndependent ==
    (pc = "planned" /\ session_num >= 2 /\ AgedItems # {}) =>
        \A other \in Reorderings(all_videos) :
            /\ Dated(other) # << >>
            /\ session_config.continuation.anchor_video_id =
                   Some(AnchorVideo(other).video_id)
            /\ session_config.continuation.target_date_range =
                   Some(AnchorVideo(other).date)

-----------------------------------------------------------------------------
(* session_id: sessions started by successive runs of the program, under a
   clock counted in half seconds; session_config holds the clock and the
   records hold their session_id *)

\* the sessions of a history
IdSessions == 4

\* datetime.now() counts finer than strftime('%Y%m%d_%H%M%S') writes
TicksPerSecond == 2

\* the time a session takes and the time between the return of a run and
\* the first session of the next run, in ticks
ShortTimes == {0, 1}

\* session_id of run_harvest_session at the time now
SessionId(now) == now \div TicksPerSecond

\* the record of a session of no item started at the time now, with its
\* session_id
IdRecord(now) ==
    [session_id |-> SessionId(now), videos_found |-> 0,
     success_rate |-> ZeroRate, target_filter |-> 0, total_score |-> 0,
     continuation_point |-> None]

IdInit ==
    /\ pc = "ids"
    /\ runs = 0
    /\ attempts = 0
    /\ faults = 0
    /\ harvest_file = FileAbsent
    /\ exit_code = -1
    /\ all_videos = << >>
    /\ sessions = << >>
    /\ harvest_stats = HarvestStats
    /\ num_sessions = 0
    /\ target_videos = 0
    /\ session_num = 0
    /\ successful_sessions = 0
    /\ session_config \in {[now |-> t] : t \in 0..1}
    /\ videos = << >>
    /\ collector = "idle"
    /\ guard_continue = TRUE
    /\ calls = << >>
    /\ sleep_secs = 0
    /\ load_ok = TRUE
    /\ save_ok = TRUE

\* a session is run and recorded, and the gap of at least 30 seconds is
\* slept before the next one
SessionThenGap ==
    /\ pc = "ids"
    /\ Len(sessions) < IdSessions
    /\ sessions' = Append(sessions, IdRecord(session_config.now))
    /\ \E took \in ShortTimes, base_gap \in BaseGapDraws :
           /\ sleep_secs' = _calculate_session_gap(base_gap, Mult(1, 1))
           /\ session_config' =
                  [now |-> session_config.now + took
                               + TicksPerSecond
                                     * _calculate_session_gap(base_gap, Mult(1, 1))]
    /\ UNCHANGED <<pc, runs, attempts, faults, harvest_file, all_videos,
                   harvest_stats, num_sessions, target_videos, session_num,
                   successful_sessions, videos, collector, guard_continue, calls,
                   load_ok, save_ok, exit_code>>

\* the last session of a run is run and recorded, the run saves and
\* returns without a sleep, and the program is started again
SessionThenRestart ==
    /\ pc = "ids"
    /\ Len(sessions) < IdSessions
    /\ sessions' = Append(sessions, IdRecord(session_config.now))
    /\ \E took \in ShortTimes, pause \in ShortTimes :
           session_config' = [now |-> session_config.now + took + pause]
    /\ sleep_secs' = 0
    /\ UNCHANGED <<pc, runs, attempts, faults, harvest_file, all_videos,
                   harvest_stats, num_sessions, target_videos, session_num,
                   successful_sessions, videos, collector, guard_continue, calls,
                   load_ok, save_ok, exit_code>>

IdNext ==
    \/ SessionThenGap
    \/ SessionThenRestart

IdSpec == IdInit /\ [][IdNext]_vars

\* C34: the session ids of the history are pairwise distinct and increase
\* in the order of creation, within a run and across runs, however short a
\* session or the pause between two session starts is.
C34_SessionIdsIncrease ==
    pc = "ids" =>
        \A i, j \in 1..Len(sessions) :
            i < j => sessions[i].session_id < sessions[j].session_id

-----------------------------------------------------------------------------
(* The gap after the third session *)

\* the call run_smart_harvest makes after a session of index 2 or more:
\* the multiplier of _generate_session_config is 2.5, the base value comes
\* from the default window and the session is in the history
GapAfterThirdSession ==
    /\ pc = "gap_done"
    /\ session_config.gap_multiplier = Mult(5, 2)
    /\ session_config.base_gap \in session_gap_min..session_gap_max
    /\ Len(sessions) >= 1

-----------------------------------------------------------------------------
(* The statistics of run_smart_harvest with their times: runs of the
   program that record sessions, keep harvest_stats and save it; the
   records and the statistics carry the time fields here, and
   session_config holds the time since harvest_start *)

\* the sessions of a history
TotalsSessions == 3

\* completion_time of a session
SessionTimes == {1, 2}

\* what a session found and scored
SessionDraws == {[videos_found |-> 0, total_score |-> 0],
                 [videos_found |-> 20, total_score |-> 300],
                 [videos_found |-> 20, total_score |-> 200]}

\* HarvestStats() with total_time
TimedStats == HarvestStats @@ [total_time |-> 0]

\* harvest_metadata of _save_harvest_results with total_time
TimedMetadata(ss, stats) ==
    [total_sessions |-> Len(ss),
     total_videos |-> stats.total_videos,
     unique_videos |-> stats.unique_videos,
     total_time |-> stats.total_time,
     total_score |-> stats.total_score,
     best_session_score |-> stats.best_session_score]

\* the file _save_harvest_results writes
TimedFile(ss, stats) ==
    FileJson([harvest_metadata |-> TimedMetadata(ss, stats),
              sessions |-> ss,
              all_videos |-> << >>])

\* harvest_stats after _load_harvest_history
TimedLoaded(file) ==
    IF file.kind = "json"
    THEN LET metadata == file.data.harvest_metadata
         IN  [total_sessions |-> Get(metadata, "total_sessions", 0),
              total_videos |-> Get(metadata, "total_videos", 0),
              unique_videos |-> Get(metadata, "unique_videos", 0),
              total_time |-> Get(metadata, "total_time", 0),
              total_score |-> Get(metadata, "total_score", 0),
              best_session_score |-> Get(metadata, "best_session_score", 0)]
    ELSE TimedStats

TotalsInit ==
    /\ pc = "totals_off"
    /\ runs = 0
    /\ attempts = 0
    /\ faults = 0
    /\ harvest_file = FileAbsent
    /\ exit_code = -1
    /\ all_videos = << >>
    /\ sessions = << >>
    /\ harvest_stats = TimedStats
    /\ num_sessions = 0
    /\ target_videos = 0
    /\ session_num = 0
    /\ successful_sessions = 0
    /\ session_config = [elapsed |-> 0]
    /\ videos = << >>
    /\ collector = "idle"
    /\ guard_continue = TRUE
    /\ calls = << >>
    /\ sleep_secs = 0
    /\ load_ok = TRUE
    /\ save_ok = TRUE

\* the program starts: __init__ loads the file, run_smart_harvest takes
\* harvest_start
TotalsStart ==
    /\ pc = "totals_off"
    /\ runs < MaxRuns
    /\ runs' = runs + 1
    /\ harvest_stats' = TimedLoaded(harvest_file)
    /\ sessions' = harvest_file.data.sessions
    /\ session_config' = [elapsed |-> 0]
    /\ pc' = "totals_run"
    /\ UNCHANGED <<attempts, faults, harvest_file, all_videos, num_sessions,
                   target_videos, session_num, successful_sessions, videos,
                   collector, guard_continue, calls, sleep_secs, load_ok, save_ok,
                   exit_code>>

\* a session returns: the statistics are updated and saved
TotalsSession ==
    /\ pc = "totals_run"
    /\ Len(sessions) < TotalsSessions
    /\ \E draw \in SessionDraws, completion_time \in SessionTimes :
           LET session == draw @@ [completion_time |-> completion_time]
               stats ==
                   [total_sessions |-> harvest_stats.total_sessions + 1,
                    total_videos |->
                        harvest_stats.total_videos + session.videos_found,
                    unique_videos |-> harvest_stats.unique_videos,
                    total_time |->
                        harvest_stats.total_time + session.completion_time,
                    total_score |->
                        harvest_stats.total_score + session.total_score,
                    best_session_score |->
                        IF session.total_score > harvest_stats.best_session_score
                        THEN session.total_score
                        ELSE harvest_stats.best_session_score]
           IN  /\ sessions' = Append(sessions, session)
               /\ harvest_stats' = stats
               /\ harvest_file' = TimedFile(Append(sessions, session), stats)
               /\ session_config' =
                      [elapsed |-> session_config.elapsed + completion_time]
    /\ UNCHANGED <<pc, runs, attempts, faults, all_videos, num_sessions,
                   target_videos, session_num, successful_sessions, videos,
                   collector, guard_continue, calls, sleep_secs, load_ok, save_ok,
                   exit_code>>

\* the loop is over: total_time is set to the time since harvest_start,
\* the final save is made and the program ends
TotalsFinish ==
    /\ pc = "totals_run"
    /\ harvest_file' =
           TimedFile(sessions,
                     [harvest_stats EXCEPT !.total_time = session_config.elapsed])
    /\ harvest_stats' = TimedStats
    /\ sessions' = << >>
    /\ session_config' = [elapsed |-> 0]
    /\ pc' = "totals_off"
    /\ UNCHANGED <<runs, attempts, faults, all_videos, num_sessions,
                   target_videos, session_num, successful_sessions, videos,
                   collector, guard_continue, calls, sleep_secs, load_ok, save_ok,
                   exit_code>>

TotalsNext ==
    \/ TotalsStart
    \/ TotalsSession
    \/ TotalsFinish

TotalsSpec == TotalsInit /\ [][TotalsNext]_vars

\* C36: from one save to the next, within a run and across runs, the
\* saved session count, total of items seen, total time and total score
\* never decrease, and the saved best_session_score is at least the score
\* of every saved session.
C36_TotalsCumulative ==
    /\ [][(harvest_file.kind = "json" /\ harvest_file' # harvest_file) =>
             LET old == harvest_file.data.harvest_metadata
                 new == harvest_file'.data.harvest_metadata
             IN  /\ new.total_sessions >= old.total_sessions
                 /\ new.total_videos >= old.total_videos
                 /\ new.total_time >= old.total_time
                 /\ new.total_score >= old.total_score]_vars
    /\ [](harvest_file.kind = "json" =>
             \A i \in 1..Len(harvest_file.data.sessions) :
                 harvest_file.data.harvest_metadata.best_session_score
                     >= harvest_file.data.sessions[i].total_score)

-----------------------------------------------------------------------------
(* The planner and the gap computation inside a run *)

\* C37: a call of the planner (the step from "loop" that configures a
\* session) or of the gap computation (the step from "saved" to the
\* sleep), the preview of
\* the next session before a sleep included, leaves the collection, the
\* session history, the statistics and the saved document unchanged.
C37_PlannerAndGapArePure ==
    [][((pc = "loop" /\ pc' \in {"collecting", "sleep"})
           \/ (pc = "saved" /\ pc' = "sleep")) =>
          UNCHANGED <<all_videos, sessions, harvest_stats, harvest_file>>]_vars

\* the gap after the first session of a run has been computed and the
\* session of index 1 previewed over a collection of 20 items
C37_Witness ==
    /\ pc = "sleep"
    /\ collector = "returned"
    /\ session_num = 0
    /\ Len(all_videos) = 20
    /\ Len(sessions) = 1
    /\ harvest_stats.total_sessions = 1
    /\ sleep_secs \in session_gap_min..session_gap_max

-----------------------------------------------------------------------------
(* The sleeps of run_smart_harvest *)

\* C38: the run sleeps only between sessions: once the session of the last
\* index, num_sessions - 1, has been processed, succeeded or failed, there
\* is no sleep before the final save.
C38_NoSleepAfterLastSession ==
    pc = "sleep" => session_num < num_sessions - 1

====
